---- MODULE Spec2Model ----
(***************************************************************************)
(* tiny-sqlite: the disk-backed B+tree (btree.c), the pager (pager.c) and  *)
(* the open/close bootstrap (db.c).                                        *)
(*                                                                         *)
(* A page is a record.  The two node layouts overlay the same bytes, so    *)
(* one record shape serves both: the field num is num_cells of a leaf and  *)
(* num_keys of an internal node, the field link is next_leaf of a leaf and *)
(* right_child of an internal node.  cells holds the first num cells; the  *)
(* bytes after them are never read by the code.  A leaf cell is            *)
(* [key, value], an internal cell is [child, key].  Keys are stored as     *)
(* unsigned words (uint32_t in the source, KeyBits wide here) and compared *)
(* as signed or unsigned exactly where the source does.                    *)
(***************************************************************************)
EXTENDS Integers, Sequences, FiniteSets, TLC

(* ---------------- sizes (scaled down from the compiled ones) ----------- *)

TABLE_MAX_PAGES == 9
LEAF_NODE_MAX_CELLS == 2
INTERNAL_NODE_MAX_KEYS == 2
KeyBits == 4
\* ids offered to Insert/Delete/Find: -NegKeys .. MaxKey
NegKeys == 2
MaxKey == 4
\* usernames offered to Insert: 1 .. MaxName
MaxName == 2

INTERNAL_NODE_MAX_CHILDREN == INTERNAL_NODE_MAX_KEYS + 1
LEAF_NODE_MIN_CELLS == LEAF_NODE_MAX_CELLS \div 2
INTERNAL_NODE_MIN_KEYS == INTERNAL_NODE_MAX_KEYS \div 2

NODE_INTERNAL == 0
NODE_LEAF == 1

Word == 2 ^ KeyBits
Keys == (0 - NegKeys) .. MaxKey
Names == 1 .. MaxName

\* (uint32_t)key and (int32_t)stored
AsUnsigned(k) == k % Word
AsSigned(u) == IF u >= Word \div 2 THEN u - Word ELSE u

VARIABLES
    header,     \* Table.header: num_rows, root_page_num, next_free_page
    pages,      \* Pager.pages: the resident buffers, page number -> page
    num_pages,  \* Pager.num_pages
    file,       \* the database file: page number -> page, 0 .. length-1
    sess,       \* "closed", "open", "dead" (the process exited), "hung"
    live,       \* the key -> row map the calls so far define
    saved,      \* that map as of the last Close
    last,       \* the last call and what it returned
    ops         \* the number of calls so far

vars == <<header, pages, num_pages, file, sess, live, saved, last, ops>>

(* ---------------- pager ------------------------------------------------ *)

\* calloc(1, PAGE_SIZE): type byte 0 is NODE_INTERNAL
ZeroPage ==
    [type |-> NODE_INTERNAL, is_root |-> FALSE, parent |-> 0,
     num |-> 0, link |-> 0, cells |-> <<>>]

\* the count field of the node says more cells than the page holds: page 0
\* once db_close has stored the header over its first 12 bytes (num is then
\* next_free_page * 2^16).  A cell read at an index that count allows is a
\* read far outside the 4096-byte buffer
Wild(node) == node.num # Len(node.cells)

die(t, msg) == IF t.err = "" THEN [t EXCEPT !.err = msg] ELSE t

\* fread of page n; past the end of the file it reads nothing (feof)
ReadFile(t, n) == IF n \in DOMAIN t.file THEN t.file[n] ELSE ZeroPage

\* a pager without the residency test: every call makes a new buffer and
\* fills it from the file
pager_get_page_rereading(t, page_num) ==
    IF t.err # "" THEN t
    ELSE IF page_num >= TABLE_MAX_PAGES THEN die(t, "page out of bounds")
    ELSE [t EXCEPT
            !.pages = (page_num :> (IF page_num < t.num_pages
                                    THEN ReadFile(t, page_num) ELSE ZeroPage)) @@ @,
            !.num_pages = IF page_num >= @ THEN page_num + 1 ELSE @]

pager_get_page(t, page_num) ==
    IF t.err # "" THEN t
    ELSE IF page_num >= TABLE_MAX_PAGES THEN die(t, "page out of bounds")
    ELSE IF page_num \in DOMAIN t.pages THEN t
    ELSE [t EXCEPT
            !.pages = (page_num :> (IF page_num < t.num_pages
                                    THEN ReadFile(t, page_num) ELSE ZeroPage)) @@ @,
            !.num_pages = IF page_num >= @ THEN page_num + 1 ELSE @]

\* the buffer pager_get_page returns.  A buffer that is only read holds the
\* bytes of the file and flushing it writes them back unchanged, so a read
\* does not materialise the buffer here; a write (SetPage) does.
Node(t, page_num) ==
    IF page_num \in DOMAIN t.pages THEN t.pages[page_num]
    ELSE IF page_num < t.num_pages THEN ReadFile(t, page_num)
    ELSE ZeroPage

\* fseek to the page's offset and fwrite: the file grows to hold the page
pager_flush(t, page_num) ==
    IF page_num \notin DOMAIN t.pages THEN t
    ELSE LET len == Cardinality(DOMAIN t.file)
             top == IF page_num >= len THEN page_num ELSE len - 1
         IN  [t EXCEPT !.file = [p \in 0 .. top |->
                                    IF p = page_num THEN t.pages[page_num]
                                    ELSE IF p \in DOMAIN t.file THEN t.file[p]
                                    ELSE ZeroPage]]

\* a pager that writes every store through to the file at once
SetPageWriteThrough(t, page_num, node) ==
    LET u == pager_get_page(t, page_num) IN
    IF u.err # "" THEN u
    ELSE pager_flush([u EXCEPT !.pages[page_num] = node], page_num)

\* a store through the pointer pager_get_page returned
SetPage(t, page_num, node) ==
    LET u == pager_get_page(t, page_num) IN
    IF u.err # "" THEN u ELSE [u EXCEPT !.pages[page_num] = node]

(* ---------------- node accessors --------------------------------------- *)

get_node_type(node) == node.type
is_node_root(node) == node.is_root
node_parent(node) == node.parent
leaf_node_num_cells(node) == node.num
leaf_node_next_leaf(node) == node.link
leaf_node_key(node, cell_num) == node.cells[cell_num + 1].key
leaf_node_value(node, cell_num) == node.cells[cell_num + 1].value
internal_node_num_keys(node) == node.num
internal_node_right_child(node) == node.link
internal_node_child(node, cell_num) == node.cells[cell_num + 1].child
internal_node_key(node, cell_num) == node.cells[cell_num + 1].key

initialize_leaf_node ==
    [type |-> NODE_LEAF, is_root |-> FALSE, parent |-> 0,
     num |-> 0, link |-> 0, cells |-> <<>>]

initialize_internal_node ==
    [type |-> NODE_INTERNAL, is_root |-> FALSE, parent |-> 0,
     num |-> 0, link |-> 0, cells |-> <<>>]

\* the children of an internal node, cells first, right_child last
ChildList(node) ==
    [i \in 1 .. internal_node_num_keys(node) |-> node.cells[i].child]
        \o <<internal_node_right_child(node)>>

(* ---------------- allocation and max key ------------------------------- *)

\* the page number returned is t.header.next_free_page before the call
\* an allocator that hands out the same page again and again
allocate_page_recycling(t) ==
    IF t.err # "" THEN t
    ELSE IF t.header.next_free_page >= TABLE_MAX_PAGES THEN die(t, "out of pages")
    ELSE t

allocate_page(t) ==
    IF t.err # "" THEN t
    ELSE IF t.header.next_free_page >= TABLE_MAX_PAGES THEN die(t, "out of pages")
    ELSE [t EXCEPT !.header.next_free_page = @ + 1]

RECURSIVE max_key_from(_, _, _)
max_key_from(t, page_num, fuel) ==
    LET node == Node(t, page_num) IN
    IF get_node_type(node) = NODE_LEAF
    THEN IF leaf_node_num_cells(node) = 0 THEN 0
         ELSE leaf_node_key(node, leaf_node_num_cells(node) - 1)
    ELSE IF fuel = 0 THEN 0
         ELSE max_key_from(t, internal_node_right_child(node), fuel - 1)

get_node_max_key(t, page_num) == max_key_from(t, page_num, TABLE_MAX_PAGES)

\* how get_node_max_key fails: its recursion never reaches a leaf (it follows
\* right_child round a cycle until the stack is exhausted), or the leaf it
\* reaches has a count that points outside the page
RECURSIVE max_key_fault(_, _, _)
max_key_fault(t, page_num, fuel) ==
    LET node == Node(t, page_num) IN
    IF get_node_type(node) = NODE_LEAF
    THEN IF Wild(node) THEN "wild read" ELSE ""
    ELSE IF fuel = 0 THEN "stack overflow"
    ELSE max_key_fault(t, internal_node_right_child(node), fuel - 1)

\* get_node_max_key over each of children, as a guard of its callers
MaxKeysOf(t, children) ==
    LET bad == {i \in 1 .. Len(children) :
                   max_key_fault(t, children[i], TABLE_MAX_PAGES) # ""}
        first == CHOOSE i \in bad : \A j \in bad : i <= j
    IN  IF t.err # "" \/ bad = {} THEN t
        ELSE die(t, max_key_fault(t, children[first], TABLE_MAX_PAGES))

(* ---------------- internal node rebuild and child sort ----------------- *)

RECURSIVE set_parents(_, _, _, _)
set_parents(t, internal_page, children, i) ==
    IF i > Len(children) THEN t
    ELSE LET child_node == Node(t, children[i]) IN
         set_parents(
             SetPage(t, children[i],
                     [child_node EXCEPT !.parent = internal_page, !.is_root = FALSE]),
             internal_page, children, i + 1)

internal_node_rebuild(t, internal_page, children) ==
    LET count == Len(children) IN
    IF t.err # "" THEN t
    ELSE IF count < 2 THEN die(t, "internal rebuild needs >=2 children")
    ELSE IF count > INTERNAL_NODE_MAX_CHILDREN
    THEN die(t, "internal rebuild too many children")
    ELSE LET node == Node(t, internal_page)
             t1 == SetPage(t, internal_page,
                       [initialize_internal_node EXCEPT
                            !.is_root = is_node_root(node),
                            !.parent = node_parent(node)])
             t2 == MaxKeysOf(set_parents(t1, internal_page, children, 1),
                             SubSeq(children, 1, count - 1))
             num_keys == count - 1
         IN  SetPage(t2, internal_page,
                 [Node(t2, internal_page) EXCEPT
                     !.num = num_keys,
                     !.cells = [i \in 1 .. num_keys |->
                                   [child |-> children[i],
                                    key |-> get_node_max_key(t2, children[i])]],
                     !.link = children[count]])

Swap(s, i, j) == [s EXCEPT ![i] = s[j], ![j] = s[i]]

\* the j loop of the exchange sort; keys[] holds uint32_t, compared unsigned
RECURSIVE sort_inner(_, _, _, _)
sort_inner(keys, children, i, j) ==
    IF j > Len(keys) THEN <<keys, children>>
    ELSE IF keys[j] < keys[i]
    THEN sort_inner(Swap(keys, i, j), Swap(children, i, j), i, j + 1)
    ELSE sort_inner(keys, children, i, j + 1)

RECURSIVE sort_outer(_, _, _)
sort_outer(keys, children, i) ==
    IF i > Len(keys) THEN children
    ELSE LET r == sort_inner(keys, children, i, i + 1) IN
         sort_outer(r[1], r[2], i + 1)

sort_children_by_maxkey(t, children) ==
    sort_outer([i \in 1 .. Len(children) |-> get_node_max_key(t, children[i])],
               children, 1)

(* ---------------- find ------------------------------------------------- *)

RECURSIVE internal_find_loop(_, _, _, _)
internal_find_loop(internal, key, left, right) ==
    IF left < right
    THEN LET mid == left + (right - left) \div 2
             mid_key == internal_node_key(internal, mid)
         IN  IF AsSigned(mid_key) >= key
             THEN internal_find_loop(internal, key, left, mid)
             ELSE internal_find_loop(internal, key, mid + 1, right)
    ELSE left

\* a search that compares the stored key and the target as unsigned numbers
internal_node_find_child_unsigned(internal, key) ==
    LET n == internal_node_num_keys(internal)
        at_least == {i \in 0 .. n - 1 : internal_node_key(internal, i) >= AsUnsigned(key)}
    IN  IF at_least = {} THEN n
        ELSE CHOOSE i \in at_least : \A j \in at_least : i <= j

internal_node_find_child(internal, key) ==
    internal_find_loop(internal, key, 0, internal_node_num_keys(internal))

RECURSIVE leaf_find_loop(_, _, _, _, _)
leaf_find_loop(leaf, leaf_page, key, left, right) ==
    IF left < right
    THEN LET mid == left + (right - left) \div 2
             mid_key == AsSigned(leaf_node_key(leaf, mid))
         IN  IF mid_key = key
             THEN [page_num |-> leaf_page, cell_num |-> mid, end_of_table |-> FALSE]
             ELSE IF mid_key < key
             THEN leaf_find_loop(leaf, leaf_page, key, mid + 1, right)
             ELSE leaf_find_loop(leaf, leaf_page, key, left, mid)
    ELSE [page_num |-> leaf_page, cell_num |-> left,
          end_of_table |-> (left >= leaf_node_num_cells(leaf))]

leaf_node_find(t, leaf_page, key) ==
    LET leaf == Node(t, leaf_page) IN
    leaf_find_loop(leaf, leaf_page, key, 0, leaf_node_num_cells(leaf))

\* the descent of btree_table_find; -1 when the while (true) loop never
\* reaches a leaf, -2 when a binary search runs over a count that points
\* outside the page
RECURSIVE find_from(_, _, _, _)
find_from(t, page, key, fuel) ==
    LET node == Node(t, page) IN
    IF Wild(node) THEN 0 - 2
    ELSE IF get_node_type(node) = NODE_LEAF THEN page
    ELSE IF fuel = 0 THEN 0 - 1
    ELSE LET child_index == internal_node_find_child(node, key)
             num_keys == internal_node_num_keys(node)
         IN  find_from(t,
                       IF child_index = num_keys
                       THEN internal_node_right_child(node)
                       ELSE internal_node_child(node, child_index),
                       key, fuel - 1)

\* the leaf the root-to-leaf descent selects
FindLeaf(t, key) == find_from(t, t.header.root_page_num, key, TABLE_MAX_PAGES)

\* how btree_table_find fails to return
FindFault(t, key) ==
    IF FindLeaf(t, key) = 0 - 1 THEN "hang"
    ELSE IF FindLeaf(t, key) = 0 - 2 THEN "wild read"
    ELSE ""

btree_table_find(t, key) == leaf_node_find(t, FindLeaf(t, key), key)

(* ---------------- cursor API -------------------------------------------- *)

\* the leftmost leaf; 0 stands for die("corrupt internal"), -1 for a loop
\* that never reaches a leaf, -2 for a leaf whose count points outside the
\* page (the caller's loop then reads cells outside it)
RECURSIVE start_from(_, _, _)
start_from(t, page, fuel) ==
    LET node == Node(t, page) IN
    IF get_node_type(node) = NODE_LEAF THEN (IF Wild(node) THEN 0 - 2 ELSE page)
    ELSE IF internal_node_num_keys(node) = 0 THEN 0
    ELSE IF fuel = 0 THEN 0 - 1
    ELSE start_from(t,
                    IF node.cells = <<>> THEN 0 ELSE internal_node_child(node, 0),
                    fuel - 1)

btree_table_start(t) ==
    LET page == start_from(t, t.header.root_page_num, TABLE_MAX_PAGES) IN
    [page_num |-> page, cell_num |-> 0,
     end_of_table |-> (leaf_node_num_cells(Node(t, page)) = 0)]

btree_cursor_value(t, c) == leaf_node_value(Node(t, c.page_num), c.cell_num)

btree_cursor_advance(t, c) ==
    LET leaf == Node(t, c.page_num)
        n == leaf_node_num_cells(leaf)
        next == leaf_node_next_leaf(leaf)
    IN  IF c.cell_num + 1 < n THEN [c EXCEPT !.cell_num = @ + 1]
        ELSE IF next = 0 THEN [c EXCEPT !.cell_num = @ + 1, !.end_of_table = TRUE]
        ELSE [page_num |-> next, cell_num |-> 0,
              end_of_table |-> (leaf_node_num_cells(Node(t, next)) = 0)]

\* the rows a full scan prints: TableStart, then CursorValue and
\* CursorAdvance until end_of_table; steps bounds the caller's loop
ScanSteps == TABLE_MAX_PAGES * (LEAF_NODE_MAX_CELLS + 1)

RECURSIVE scan_from(_, _, _)
scan_from(t, c, steps) ==
    IF c.end_of_table \/ steps = 0 THEN <<>>
    ELSE <<btree_cursor_value(t, c)>>
             \o scan_from(t, btree_cursor_advance(t, c), steps - 1)

\* the caller's loop reaches end_of_table
RECURSIVE scan_ends(_, _, _)
scan_ends(t, c, steps) ==
    IF c.end_of_table THEN TRUE
    ELSE IF steps = 0 THEN FALSE
    ELSE scan_ends(t, btree_cursor_advance(t, c), steps - 1)

\* how a full scan fails to finish
ScanFault(t) ==
    LET page == start_from(t, t.header.root_page_num, TABLE_MAX_PAGES) IN
    IF page = 0 THEN "corrupt internal"
    ELSE IF page = 0 - 1 THEN "hang"
    ELSE IF page = 0 - 2 THEN "wild read"
    ELSE IF ~scan_ends(t, btree_table_start(t), ScanSteps) THEN "hang"
    ELSE ""

Scan(t) ==
    IF ScanFault(t) = "" THEN scan_from(t, btree_table_start(t), ScanSteps) ELSE <<>>

(* ---------------- parent updates --------------------------------------- *)

internal_node_update_key_for_child(t, parent_page, child_page) ==
    LET parent == Node(t, parent_page)
        num_keys == internal_node_num_keys(parent)
        hits == {i \in 0 .. num_keys - 1 : internal_node_child(parent, i) = child_page}
    IN  IF t.err # "" \/ hits = {} THEN t
        ELSE IF max_key_fault(t, child_page, TABLE_MAX_PAGES) # ""
        THEN die(t, max_key_fault(t, child_page, TABLE_MAX_PAGES))
        ELSE LET i == CHOOSE x \in hits : \A y \in hits : x <= y IN
             SetPage(t, parent_page,
                     [parent EXCEPT !.cells[i + 1].key = get_node_max_key(t, child_page)])

(* ---------------- tree growth ------------------------------------------ *)

\* a root split as textbooks have it: the new page becomes the root
create_new_root_relocating(t, right_child_page) ==
    LET root_page == t.header.root_page_num
        root == Node(t, root_page)
        new_root_page == t.header.next_free_page
        t1 == allocate_page(t)
        t2 == SetPage(t1, root_page, [root EXCEPT !.is_root = FALSE])
        t3 == MaxKeysOf(
                  SetPage(t2, new_root_page,
                          [initialize_internal_node EXCEPT !.is_root = TRUE]),
                  <<root_page, right_child_page>>)
        children == sort_children_by_maxkey(t3, <<root_page, right_child_page>>)
        t4 == internal_node_rebuild(t3, new_root_page, children)
    IN  IF t1.err # "" THEN t1
        ELSE [t4 EXCEPT !.header.root_page_num = new_root_page]

create_new_root(t, right_child_page) ==
    LET root_page == t.header.root_page_num
        root == Node(t, root_page)
        left_child_page == t.header.next_free_page
        t1 == allocate_page(t)
        t2 == SetPage(t1, left_child_page,
                  [root EXCEPT !.is_root = FALSE, !.parent = root_page])
        t3 == MaxKeysOf(
                  SetPage(t2, root_page, [initialize_internal_node EXCEPT !.is_root = TRUE]),
                  <<left_child_page, right_child_page>>)
        children == sort_children_by_maxkey(t3, <<left_child_page, right_child_page>>)
    IN  IF t1.err # "" THEN t1
        ELSE internal_node_rebuild(t3, root_page, children)

RECURSIVE internal_node_insert_child(_, _, _)
internal_node_insert_child(t, parent_page, new_child_page) ==
    LET parent == Node(t, parent_page)
        num_keys == internal_node_num_keys(parent)
    IN
    IF t.err # "" THEN t
    ELSE IF get_node_type(parent) # NODE_INTERNAL THEN die(t, "parent not internal")
    ELSE IF num_keys + 1 > INTERNAL_NODE_MAX_CHILDREN
    THEN die(t, "corrupt internal children count")
    ELSE
    LET count == num_keys + 2
        \* sort_children_by_maxkey has keys[INTERNAL_NODE_MAX_CHILDREN]: with
        \* count one larger it stores past the array
        ts == MaxKeysOf(IF count > INTERNAL_NODE_MAX_CHILDREN
                        THEN [t EXCEPT !.overrun = TRUE] ELSE t,
                        ChildList(parent) \o <<new_child_page>>)
        children == sort_children_by_maxkey(ts, ChildList(parent) \o <<new_child_page>>)
    IN
    IF ts.err # "" THEN ts
    ELSE IF count <= INTERNAL_NODE_MAX_CHILDREN
    THEN internal_node_rebuild(ts, parent_page, children)
    ELSE
    LET new_internal_page == ts.header.next_free_page
        t1 == allocate_page(ts)
        t2 == SetPage(t1, new_internal_page, initialize_internal_node)
        parent_is_root == is_node_root(parent)
        parent_parent == node_parent(parent)
        left_count == count \div 2
        left_children == SubSeq(children, 1, left_count)
        right_children == SubSeq(children, left_count + 1, count)
        t3 == internal_node_rebuild(t2, parent_page, left_children)
        t4 == internal_node_rebuild(t3, new_internal_page, right_children)
    IN
    IF t1.err # "" THEN t1
    ELSE IF t4.err # "" THEN t4
    ELSE IF parent_is_root THEN create_new_root(t4, new_internal_page)
    ELSE IF parent_parent = 0 THEN die(t4, "non-root internal without parent?")
    ELSE internal_node_insert_child(
             internal_node_update_key_for_child(t4, parent_parent, parent_page),
             parent_parent, new_internal_page)

insert_into_parent(t, left_page, right_page) ==
    LET left == Node(t, left_page) IN
    IF t.err # "" THEN t
    ELSE IF is_node_root(left) THEN create_new_root(t, right_page)
    ELSE internal_node_insert_child(
             internal_node_update_key_for_child(t, node_parent(left), left_page),
             node_parent(left), right_page)

(* ---------------- leaf insert ------------------------------------------ *)

InsertAt(s, i, x) == SubSeq(s, 1, i) \o <<x>> \o SubSeq(s, i + 1, Len(s))
RemoveAt(s, i) == SubSeq(s, 1, i) \o SubSeq(s, i + 2, Len(s))

\* an insert that writes the new cell after the last one, wherever the cursor is
leaf_insert_no_split_appending(t, c, key, row) ==
    LET leaf == Node(t, c.page_num)
        n == leaf_node_num_cells(leaf)
    IN  SetPage(t, c.page_num,
            [leaf EXCEPT
                !.num = n + 1,
                !.cells = InsertAt(leaf.cells, n,
                                   [key |-> AsUnsigned(key), value |-> row])])

\* the caller has checked n < LEAF_NODE_MAX_CELLS (the function's return)
leaf_insert_no_split(t, c, key, row) ==
    LET leaf == Node(t, c.page_num)
        n == leaf_node_num_cells(leaf)
    IN  SetPage(t, c.page_num,
            [leaf EXCEPT
                !.num = n + 1,
                !.cells = InsertAt(leaf.cells, c.cell_num,
                                   [key |-> AsUnsigned(key), value |-> row])])

leaf_split_and_insert(t, c, key, row) ==
    LET old_page == c.page_num
        old_leaf == Node(t, old_page)
        old_n == leaf_node_num_cells(old_leaf)
        new_page == t.header.next_free_page
        t1 == allocate_page(t)
        total == old_n + 1
        ins == IF c.cell_num > old_n THEN old_n ELSE c.cell_num
        temp == InsertAt(old_leaf.cells, ins, [key |-> AsUnsigned(key), value |-> row])
        left_count == total \div 2
        t2 == SetPage(t1, new_page,
                  [initialize_leaf_node EXCEPT
                      !.link = leaf_node_next_leaf(old_leaf),
                      !.num = total - left_count,
                      !.cells = SubSeq(temp, left_count + 1, total),
                      !.parent = node_parent(old_leaf)])
        t3 == SetPage(t2, old_page,
                  [old_leaf EXCEPT
                      !.link = new_page,
                      !.num = left_count,
                      !.cells = SubSeq(temp, 1, left_count)])
    IN  IF t1.err # "" THEN t1
        ELSE insert_into_parent(t3, old_page, new_page)

\* an insert that splits a leaf one cell before it is full
btree_insert_splitting_early(t, row) ==
    LET c == btree_table_find(t, row.id)
        leaf == Node(t, c.page_num)
        n == leaf_node_num_cells(leaf)
        counted(u) == [u EXCEPT !.header.num_rows = (@ + 1) % Word]
    IN  IF FindLeaf(t, row.id) < 0
        THEN [t |-> die(t, FindFault(t, row.id)), ok |-> FALSE]
        ELSE IF c.cell_num < n /\ AsSigned(leaf_node_key(leaf, c.cell_num)) = row.id
        THEN [t |-> t, ok |-> FALSE]
        ELSE IF n + 1 < LEAF_NODE_MAX_CELLS
        THEN [t |-> counted(leaf_insert_no_split(t, c, row.id, row)), ok |-> TRUE]
        ELSE [t |-> counted(leaf_split_and_insert(t, c, row.id, row)), ok |-> TRUE]

\* [t |-> the table afterwards, ok |-> the return value]
btree_insert(t, row) ==
    LET c == btree_table_find(t, row.id)
        leaf == Node(t, c.page_num)
        n == leaf_node_num_cells(leaf)
        counted(u) == [u EXCEPT !.header.num_rows = (@ + 1) % Word]
    IN  IF FindLeaf(t, row.id) < 0
        THEN [t |-> die(t, FindFault(t, row.id)), ok |-> FALSE]
        ELSE IF c.cell_num < n /\ AsSigned(leaf_node_key(leaf, c.cell_num)) = row.id
        THEN [t |-> t, ok |-> FALSE]
        ELSE IF n < LEAF_NODE_MAX_CELLS
        THEN [t |-> counted(leaf_insert_no_split(t, c, row.id, row)), ok |-> TRUE]
        ELSE [t |-> counted(leaf_split_and_insert(t, c, row.id, row)), ok |-> TRUE]

(* ---------------- leaf rebalancing -------------------------------------- *)

\* find_leaf_siblings and find_internal_siblings share one body in the source
FindSiblings(t, page) ==
    LET node == Node(t, page)
        parent_page == node_parent(node)
        parent == Node(t, parent_page)
        num_keys == internal_node_num_keys(parent)
        child(i) == IF i = num_keys THEN internal_node_right_child(parent)
                    ELSE internal_node_child(parent, i)
        hits == {i \in 0 .. num_keys : child(i) = page}
    IN  IF is_node_root(node)
        THEN [found |-> FALSE, left |-> 0, right |-> 0, parent |-> 0]
        ELSE IF hits = {}
        THEN [found |-> FALSE, left |-> 0, right |-> 0, parent |-> parent_page]
        ELSE LET i == CHOOSE x \in hits : \A y \in hits : x <= y IN
             [found |-> TRUE,
              left |-> IF i > 0 THEN internal_node_child(parent, i - 1) ELSE 0,
              right |-> IF i = num_keys THEN 0
                        ELSE IF i + 1 < num_keys THEN internal_node_child(parent, i + 1)
                        ELSE internal_node_right_child(parent),
              parent |-> parent_page]

find_leaf_siblings(t, leaf_page) == FindSiblings(t, leaf_page)

find_internal_siblings(t, internal_page) == FindSiblings(t, internal_page)

\* [t |-> the table afterwards, ok |-> the return value]
try_borrow_from_left(t, leaf_page, left_page, parent_page) ==
    LET leaf == Node(t, leaf_page)
        left == Node(t, left_page)
        borrow_idx == leaf_node_num_cells(left) - 1
        t1 == SetPage(t, leaf_page,
                  [leaf EXCEPT !.cells = <<left.cells[borrow_idx + 1]>> \o @,
                               !.num = @ + 1])
        t2 == SetPage(t1, left_page,
                  [left EXCEPT !.cells = SubSeq(@, 1, borrow_idx), !.num = @ - 1])
    IN  IF left_page = 0 THEN [t |-> t, ok |-> FALSE]
        ELSE IF leaf_node_num_cells(left) <= LEAF_NODE_MIN_CELLS
        THEN [t |-> t, ok |-> FALSE]
        ELSE [t |-> internal_node_update_key_for_child(t2, parent_page, left_page),
              ok |-> TRUE]

\* a borrow from the right sibling that leaves the parent's key as it was
try_borrow_from_right_keeping_key(t, leaf_page, right_page, parent_page) ==
    LET leaf == Node(t, leaf_page)
        right == Node(t, right_page)
        t1 == SetPage(t, leaf_page,
                  [leaf EXCEPT !.cells = @ \o <<right.cells[1]>>, !.num = @ + 1])
        t2 == SetPage(t1, right_page,
                  [right EXCEPT !.cells = Tail(@), !.num = @ - 1])
    IN  IF right_page = 0 THEN [t |-> t, ok |-> FALSE]
        ELSE IF leaf_node_num_cells(right) <= LEAF_NODE_MIN_CELLS
        THEN [t |-> t, ok |-> FALSE]
        ELSE [t |-> t2, ok |-> TRUE]

try_borrow_from_right(t, leaf_page, right_page, parent_page) ==
    LET leaf == Node(t, leaf_page)
        right == Node(t, right_page)
        t1 == SetPage(t, leaf_page,
                  [leaf EXCEPT !.cells = @ \o <<right.cells[1]>>, !.num = @ + 1])
        t2 == SetPage(t1, right_page,
                  [right EXCEPT !.cells = Tail(@), !.num = @ - 1])
    IN  IF right_page = 0 THEN [t |-> t, ok |-> FALSE]
        ELSE IF leaf_node_num_cells(right) <= LEAF_NODE_MIN_CELLS
        THEN [t |-> t, ok |-> FALSE]
        ELSE [t |-> internal_node_update_key_for_child(t2, parent_page, leaf_page),
              ok |-> TRUE]

\* a collapse that also fires while the root still has one key, that is, two
\* children
maybe_shrink_root_eager(t) ==
    LET root == Node(t, t.header.root_page_num)
        new_root == internal_node_right_child(root)
        child == Node(t, new_root)
    IN  IF t.err # "" THEN t
        ELSE IF get_node_type(root) = NODE_INTERNAL /\ internal_node_num_keys(root) <= 1
        THEN [SetPage(t, new_root, [child EXCEPT !.is_root = TRUE, !.parent = 0])
                 EXCEPT !.header.root_page_num = new_root]
        ELSE t

\* a rebalance that never promotes the last child of the root
maybe_shrink_root_never(t) == t

\* a collapse that makes the last child the root in the header only
maybe_shrink_root_unflagged(t) ==
    LET root == Node(t, t.header.root_page_num)
        new_root == internal_node_right_child(root)
    IN  IF t.err # "" THEN t
        ELSE IF get_node_type(root) = NODE_INTERNAL /\ internal_node_num_keys(root) = 0
        THEN [t EXCEPT !.header.root_page_num = new_root]
        ELSE t

maybe_shrink_root(t) ==
    LET root == Node(t, t.header.root_page_num)
        new_root == internal_node_right_child(root)
        child == Node(t, new_root)
    IN  IF t.err # "" THEN t
        ELSE IF get_node_type(root) = NODE_INTERNAL /\ internal_node_num_keys(root) = 0
        THEN [SetPage(t, new_root, [child EXCEPT !.is_root = TRUE, !.parent = 0])
                 EXCEPT !.header.root_page_num = new_root]
        ELSE t

RECURSIVE internal_node_remove_child(_, _, _)
RECURSIVE rebalance_internal(_, _)

merge_leaf_nodes(t, left_page, right_page, parent_page) ==
    LET left == Node(t, left_page)
        right == Node(t, right_page)
        t1 == SetPage(t, left_page,
                  [left EXCEPT
                      !.cells = @ \o right.cells,
                      !.num = leaf_node_num_cells(left) + leaf_node_num_cells(right),
                      !.link = leaf_node_next_leaf(right)])
    IN  internal_node_remove_child(t1, parent_page, right_page)

rebalance_leaf(t, leaf_page) ==
    LET sib == find_leaf_siblings(t, leaf_page)
        bl == try_borrow_from_left(t, leaf_page, sib.left, sib.parent)
        br == try_borrow_from_right(t, leaf_page, sib.right, sib.parent)
    IN  IF ~sib.found THEN t
        ELSE IF bl.ok THEN bl.t
        ELSE IF br.ok THEN br.t
        ELSE IF sib.left # 0
        THEN maybe_shrink_root(merge_leaf_nodes(t, sib.left, leaf_page, sib.parent))
        ELSE IF sib.right # 0
        THEN maybe_shrink_root(merge_leaf_nodes(t, leaf_page, sib.right, sib.parent))
        ELSE maybe_shrink_root(t)

(* ---------------- internal rebalancing --------------------------------- *)

try_borrow_from_left_internal(t, internal_page, left_page, parent_page) ==
    LET left == Node(t, left_page)
        left_children == ChildList(left)
        borrowed_child == left_children[Len(left_children)]
        t1 == internal_node_rebuild(t, left_page,
                  SubSeq(left_children, 1, Len(left_children) - 1))
        curr_children == <<borrowed_child>> \o ChildList(Node(t1, internal_page))
        t2 == internal_node_rebuild(t1, internal_page, curr_children)
        t3 == internal_node_update_key_for_child(t2, parent_page, left_page)
    IN  IF left_page = 0 THEN [t |-> t, ok |-> FALSE]
        ELSE IF get_node_type(left) # NODE_INTERNAL THEN [t |-> t, ok |-> FALSE]
        ELSE IF get_node_type(Node(t, internal_page)) # NODE_INTERNAL
        THEN [t |-> t, ok |-> FALSE]
        ELSE IF internal_node_num_keys(left) <= INTERNAL_NODE_MIN_KEYS
        THEN [t |-> t, ok |-> FALSE]
        ELSE [t |-> internal_node_update_key_for_child(t3, parent_page, internal_page),
              ok |-> TRUE]

\* a borrow that leaves the grandparent's key for the borrowing node as it was
try_borrow_from_right_internal_stale_key(t, internal_page, right_page, parent_page) ==
    LET right == Node(t, right_page)
        right_children == ChildList(right)
        borrowed_child == right_children[1]
        t1 == internal_node_rebuild(t, right_page, Tail(right_children))
        curr_children == ChildList(Node(t1, internal_page)) \o <<borrowed_child>>
        t2 == internal_node_rebuild(t1, internal_page, curr_children)
    IN  IF right_page = 0 THEN [t |-> t, ok |-> FALSE]
        ELSE IF get_node_type(right) # NODE_INTERNAL THEN [t |-> t, ok |-> FALSE]
        ELSE IF get_node_type(Node(t, internal_page)) # NODE_INTERNAL
        THEN [t |-> t, ok |-> FALSE]
        ELSE IF internal_node_num_keys(right) <= INTERNAL_NODE_MIN_KEYS
        THEN [t |-> t, ok |-> FALSE]
        ELSE [t |-> internal_node_update_key_for_child(t2, parent_page, right_page),
              ok |-> TRUE]

try_borrow_from_right_internal(t, internal_page, right_page, parent_page) ==
    LET right == Node(t, right_page)
        right_children == ChildList(right)
        borrowed_child == right_children[1]
        t1 == internal_node_rebuild(t, right_page, Tail(right_children))
        curr_children == ChildList(Node(t1, internal_page)) \o <<borrowed_child>>
        t2 == internal_node_rebuild(t1, internal_page, curr_children)
        t3 == internal_node_update_key_for_child(t2, parent_page, internal_page)
    IN  IF right_page = 0 THEN [t |-> t, ok |-> FALSE]
        ELSE IF get_node_type(right) # NODE_INTERNAL THEN [t |-> t, ok |-> FALSE]
        ELSE IF get_node_type(Node(t, internal_page)) # NODE_INTERNAL
        THEN [t |-> t, ok |-> FALSE]
        ELSE IF internal_node_num_keys(right) <= INTERNAL_NODE_MIN_KEYS
        THEN [t |-> t, ok |-> FALSE]
        ELSE [t |-> internal_node_update_key_for_child(t3, parent_page, right_page),
              ok |-> TRUE]

merge_internal_nodes(t, left_page, right_page, parent_page) ==
    LET left == Node(t, left_page)
        right == Node(t, right_page)
        all_children == ChildList(left) \o ChildList(right)
    IN  IF get_node_type(left) # NODE_INTERNAL THEN t
        ELSE IF get_node_type(right) # NODE_INTERNAL THEN t
        ELSE internal_node_remove_child(
                 internal_node_rebuild(t, left_page, all_children),
                 parent_page, right_page)

rebalance_internal(t, internal_page) ==
    LET sib == find_internal_siblings(t, internal_page)
        bl == try_borrow_from_left_internal(t, internal_page, sib.left, sib.parent)
        br == try_borrow_from_right_internal(t, internal_page, sib.right, sib.parent)
    IN  IF t.err # "" \/ ~sib.found THEN t
        ELSE IF bl.ok THEN bl.t
        ELSE IF br.ok THEN br.t
        ELSE IF sib.left # 0
        THEN maybe_shrink_root(merge_internal_nodes(t, sib.left, internal_page, sib.parent))
        ELSE IF sib.right # 0
        THEN maybe_shrink_root(merge_internal_nodes(t, internal_page, sib.right, sib.parent))
        ELSE maybe_shrink_root(t)

SelectSeq2(s, x) == SelectSeq(s, LAMBDA c : c # x)

\* internal_node_remove_child rebuilding the parent from a single remaining
\* child
internal_node_remove_child_rebuilds_one(t, parent_page, child_page) ==
    LET parent == Node(t, parent_page)
        children == SelectSeq2(ChildList(parent), child_page)
        count == Len(children)
        t1 == IF count >= 1 THEN internal_node_rebuild(t, parent_page, children)
              ELSE t
        after == Node(t1, parent_page)
        min_keys == IF is_node_root(after) THEN 0 ELSE INTERNAL_NODE_MIN_KEYS
    IN  IF t.err # "" THEN t
        ELSE IF t1.err # "" THEN t1
        ELSE IF internal_node_num_keys(after) < min_keys
        THEN rebalance_internal(t1, parent_page)
        ELSE t1

internal_node_remove_child(t, parent_page, child_page) ==
    LET parent == Node(t, parent_page)
        children == SelectSeq2(ChildList(parent), child_page)
        count == Len(children)
        t1 == IF count >= 2 THEN internal_node_rebuild(t, parent_page, children)
              ELSE IF count = 1
              THEN SetPage(t, parent_page,
                       [parent EXCEPT !.num = 0, !.cells = <<>>, !.link = children[1]])
              ELSE t
        after == Node(t1, parent_page)
        min_keys == IF is_node_root(after) THEN 0 ELSE INTERNAL_NODE_MIN_KEYS
    IN  IF t.err # "" THEN t
        ELSE IF t1.err # "" THEN t1
        ELSE IF internal_node_num_keys(after) < min_keys
        THEN rebalance_internal(t1, parent_page)
        ELSE t1

(* ---------------- delete ----------------------------------------------- *)

\* [t |-> the table afterwards, ok |-> the return value]
btree_delete(t, key) ==
    LET c == btree_table_find(t, key)
        leaf == Node(t, c.page_num)
        n == leaf_node_num_cells(leaf)
        t1 == SetPage(t, c.page_num,
                  [leaf EXCEPT !.cells = RemoveAt(@, c.cell_num), !.num = n - 1])
        t2 == [t1 EXCEPT !.header.num_rows = (@ - 1) % Word]
        min_cells == IF is_node_root(leaf) THEN 1 ELSE LEAF_NODE_MIN_CELLS
    IN  IF FindLeaf(t, key) < 0 THEN [t |-> die(t, FindFault(t, key)), ok |-> FALSE]
        ELSE IF c.cell_num >= n \/ AsSigned(leaf_node_key(leaf, c.cell_num)) # key
        THEN [t |-> t, ok |-> FALSE]
        ELSE IF n - 1 < min_cells
        THEN [t |-> rebalance_leaf(t2, c.page_num), ok |-> TRUE]
        ELSE [t |-> t2, ok |-> TRUE]

\* btree_delete as src/src/btree.c has it (the build of "Commit 11", before
\* rebalancing was added): the same up to the removal of the cell, and then
\* nothing when the leaf becomes underfull
btree_delete_commit11(t, key) ==
    LET c == btree_table_find(t, key)
        leaf == Node(t, c.page_num)
        n == leaf_node_num_cells(leaf)
        t1 == SetPage(t, c.page_num,
                  [leaf EXCEPT !.cells = RemoveAt(@, c.cell_num), !.num = n - 1])
    IN  IF FindLeaf(t, key) < 0 THEN [t |-> die(t, FindFault(t, key)), ok |-> FALSE]
        ELSE IF c.cell_num >= n \/ AsSigned(leaf_node_key(leaf, c.cell_num)) # key
        THEN [t |-> t, ok |-> FALSE]
        ELSE [t |-> [t1 EXCEPT !.header.num_rows = (@ - 1) % Word], ok |-> TRUE]

\* an initialisation that leaves page 1 a plain leaf, not marked as the root
btree_init_new_db_unrooted(t) ==
    SetPage([t EXCEPT !.header = [num_rows |-> 0, root_page_num |-> 1,
                                  next_free_page |-> 2]],
            1, initialize_leaf_node)

btree_init_new_db(t) ==
    SetPage([t EXCEPT !.header = [num_rows |-> 0, root_page_num |-> 1,
                                  next_free_page |-> 2]],
            1, [initialize_leaf_node EXCEPT !.is_root = TRUE])

(* ---------------- open and close ---------------------------------------- *)

NoHeader == [num_rows |-> 0, root_page_num |-> 0, next_free_page |-> 0]
NoPages == [p \in {} |-> ZeroPage]

\* the calloc'ed Table over a fresh Pager: num_pages is the file's length in
\* pages (a file of the model is always a whole number of pages)
pager_open(f) ==
    [header |-> NoHeader, pages |-> NoPages, num_pages |-> Cardinality(DOMAIN f),
     file |-> f, err |-> "", overrun |-> FALSE]

\* memcpy(page0, &t->header, sizeof(DBHeader)): the 12 bytes of the header
\* land on the type byte, the is_root byte, the parent word, the count word
\* and the low half of the link word of the node layout (little-endian)
HeaderBytes(h, page0) ==
    [page0 EXCEPT
        !.type = h.num_rows % 256,
        !.is_root = ((h.num_rows \div 256) % 256 # 0),
        !.parent = (h.num_rows \div 65536) + (h.root_page_num % 65536) * 65536,
        !.num = (h.root_page_num \div 65536) + (h.next_free_page % 65536) * 65536,
        !.link = (h.next_free_page \div 65536) + (@ \div 65536) * 65536]

\* memcpy(&t->header, page0, sizeof(DBHeader))
HeaderOf(page0) ==
    [num_rows |-> page0.type + (IF page0.is_root THEN 256 ELSE 0)
                      + (page0.parent % 65536) * 65536,
     root_page_num |-> (page0.parent \div 65536) + (page0.num % 65536) * 65536,
     next_free_page |-> (page0.num \div 65536) + (page0.link % 65536) * 65536]

db_open(f) ==
    LET t == pager_open(f)
        t0 == pager_get_page(t, 0)
        t1 == [t0 EXCEPT !.header = HeaderOf(Node(t0, 0))]
    IN  IF t.num_pages = 0 THEN btree_init_new_db(t)
        ELSE IF t1.header.root_page_num = 0
                 \/ t1.header.root_page_num >= TABLE_MAX_PAGES
        THEN die(t1, "invalid header/root; delete db")
        ELSE IF t1.header.next_free_page = 0
                 \/ t1.header.next_free_page >= TABLE_MAX_PAGES
        THEN die(t1, "invalid next_free_page; delete db")
        ELSE t1

RECURSIVE flush_from(_, _)
flush_from(t, i) ==
    IF i >= TABLE_MAX_PAGES THEN t ELSE flush_from(pager_flush(t, i), i + 1)

pager_close(t) == [flush_from(t, 0) EXCEPT !.pages = NoPages, !.num_pages = 0]

\* a close that flushes the buffers without first copying the header into
\* page 0
db_close_without_header(t) == pager_close(t)

db_close(t) == pager_close(SetPage(t, 0, HeaderBytes(t.header, Node(t, 0))))

(* ---------------- the session as a state machine ----------------------- *)

\* calls made in one behaviour
MaxOps == 7

\* the Table the calls receive
Tbl == [header |-> header, pages |-> pages, num_pages |-> num_pages,
        file |-> file, err |-> "", overrun |-> FALSE]

Row(k, v) == [id |-> k, username |-> v]
NoRows == [x \in {} |-> Row(0, 1)]

\* exit(1) in die(), a stack overflow, or a store or read outside a buffer
\* that the build turns into a crash: the process is gone and nothing was
\* flushed.  A loop that never ends leaves the process hung until it is
\* killed.
Exit(how) ==
    /\ sess' = how
    /\ header' = NoHeader
    /\ pages' = NoPages
    /\ num_pages' = 0
    /\ file' = file
    /\ live' = live
    /\ saved' = saved

\* the call returned with the table r.t
Return(r, map) ==
    /\ sess' = "open"
    /\ header' = r.t.header
    /\ pages' = r.t.pages
    /\ num_pages' = r.t.num_pages
    /\ file' = r.t.file
    /\ live' = map
    /\ saved' = saved

\* what becomes of the process when a call does not return
Fates(t) ==
    IF t.err = "hang" THEN {"hung"}
    ELSE IF t.err = "wild read" THEN {"dead", "hung"}
    ELSE {"dead"}

\* what the build can make of a call: it returns, or the process ends; after
\* a store past keys[] in sort_children_by_maxkey either can happen
Outcome(op, r, map) ==
    \/ /\ r.t.err = ""
       /\ Return(r, map)
       /\ last' = [op |-> op, ok |-> r.ok]
    \/ /\ r.t.err # "" \/ r.t.overrun
       /\ \E how \in Fates(r.t) : Exit(how)
       /\ last' = [op |-> op, ok |-> FALSE]

Step == ops < MaxOps /\ ops' = ops + 1

Insert(k, v) ==
    /\ sess = "open"
    /\ Step
    /\ Outcome("insert", btree_insert(Tbl, Row(k, v)),
               IF k \in DOMAIN live THEN live ELSE (k :> Row(k, v)) @@ live)

Delete(k) ==
    /\ sess = "open"
    /\ Step
    /\ Outcome("delete", btree_delete(Tbl, k), [x \in DOMAIN live \ {k} |-> live[x]])

Delete11(k) ==
    /\ sess = "open"
    /\ Step
    /\ Outcome("delete", btree_delete_commit11(Tbl, k),
               [x \in DOMAIN live \ {k} |-> live[x]])

\* btree_table_find and the caller's test of the cell under the cursor
Found(t, key) ==
    LET c == btree_table_find(t, key)
        leaf == Node(t, c.page_num)
    IN  /\ c.cell_num < leaf_node_num_cells(leaf)
        /\ AsSigned(leaf_node_key(leaf, c.cell_num)) = key

Find(k) ==
    /\ sess = "open"
    /\ Step
    /\ Outcome("find",
               IF FindFault(Tbl, k) # ""
               THEN [t |-> die(Tbl, FindFault(Tbl, k)), ok |-> FALSE]
               ELSE [t |-> Tbl, ok |-> Found(Tbl, k)],
               live)

Select ==
    /\ sess = "open"
    /\ Step
    /\ Outcome("select",
               [t |-> IF ScanFault(Tbl) # "" THEN die(Tbl, ScanFault(Tbl)) ELSE Tbl,
                ok |-> TRUE],
               live)

Open ==
    /\ sess \in {"closed", "dead"}
    /\ Step
    /\ Outcome("open", [t |-> db_open(file), ok |-> TRUE], saved)

Close ==
    /\ sess = "open"
    /\ Step
    /\ LET t == db_close(Tbl) IN
       /\ sess' = "closed"
       /\ header' = NoHeader
       /\ pages' = t.pages
       /\ num_pages' = t.num_pages
       /\ file' = t.file
    /\ live' = live
    /\ saved' = live
    /\ last' = [op |-> "close", ok |-> TRUE]

\* the process is killed from outside
Kill ==
    /\ sess \in {"open", "hung"}
    /\ Step
    /\ Exit("dead")
    /\ last' = [op |-> "kill", ok |-> TRUE]

\* the usernames offered with id k: any for a key that is live (the row of a
\* duplicate insert differs from the stored one), the first otherwise
NamesFor(k) == IF k \in DOMAIN live THEN Names ELSE {1}

\* one session on a new database: the state db_open leaves for an absent file
Init ==
    /\ file = NoPages
    /\ sess = "open"
    /\ LET t == db_open(NoPages) IN
       /\ header = t.header
       /\ pages = t.pages
       /\ num_pages = t.num_pages
    /\ live = NoRows
    /\ saved = NoRows
    /\ last = [op |-> "open", ok |-> TRUE]
    /\ ops = 0

Next ==
    \/ \E k \in Keys : \E v \in NamesFor(k) : Insert(k, v)
    \/ \E k \in Keys : Delete(k)

Spec == Init /\ [][Next]_vars

\* the same session on the build whose Delete does not rebalance
Next11 ==
    \/ \E k \in Keys : \E v \in NamesFor(k) : Insert(k, v)
    \/ \E k \in Keys : Delete11(k)

Spec11 == Init /\ [][Next11]_vars

\* The last calls of a session whose root is a full leaf.  The cells of a
\* leaf are not kept in signed order: merge_leaf_nodes appends the cells of
\* the parent's right-hand leaf to those of its left-hand one, and the parent
\* orders its children as unsigned numbers, so that a leaf of keys below zero
\* is appended to a leaf of keys above; maybe_shrink_root then promotes the
\* leaf.  With LEAF_NODE_MIN_CELLS >= 2 such a leaf is filled again by later
\* inserts (with the compiled sizes the root leaf holds
\* 3 4 7 9 12 -14 -13 -12 -9 -8 -1 0 3); the full leaf drawn here holds its
\* keys in the order of a merge, ascending as unsigned numbers.
FullLeaves ==
    {c \in [1 .. LEAF_NODE_MAX_CELLS -> Keys] :
        \A i, j \in DOMAIN c : i < j => AsUnsigned(c[i]) < AsUnsigned(c[j])}

InitFull ==
    /\ file = NoPages
    /\ sess = "open"
    /\ \E c \in FullLeaves :
           LET t0 == db_open(NoPages)
               root == Node(t0, t0.header.root_page_num)
               t == SetPage([t0 EXCEPT !.header.num_rows = LEAF_NODE_MAX_CELLS],
                            t0.header.root_page_num,
                            [root EXCEPT
                                !.num = LEAF_NODE_MAX_CELLS,
                                !.cells = [i \in 1 .. LEAF_NODE_MAX_CELLS |->
                                              [key |-> AsUnsigned(c[i]),
                                               value |-> Row(c[i], 1)]]])
           IN  /\ header = t.header
               /\ pages = t.pages
               /\ num_pages = t.num_pages
               /\ live = [k \in {c[i] : i \in DOMAIN c} |-> Row(k, 1)]
    /\ saved = NoRows
    /\ last = [op |-> "insert", ok |-> TRUE]
    /\ ops = MaxOps - 2

SpecFull == InitFull /\ [][Next]_vars

\* sessions over one file: no process yet, no file yet
InitDB ==
    /\ file = NoPages
    /\ sess = "closed"
    /\ header = NoHeader
    /\ pages = NoPages
    /\ num_pages = 0
    /\ live = NoRows
    /\ saved = NoRows
    /\ last = [op |-> "none", ok |-> TRUE]
    /\ ops = 0

NextDB ==
    \/ Open
    \/ Close
    \/ Kill
    \/ \E k \in Keys : \E v \in NamesFor(k) : Insert(k, v)
    \/ \E k \in Keys : Delete(k)
    \/ \E k \in Keys : Find(k)
    \/ Select

SpecDB == InitDB /\ [][NextDB]_vars

(* ---------------- what the claims speak of ----------------------------- *)

\* every key an int32_t id can take (KeyBits wide here)
SignedKeys == (0 - Word \div 2) .. (Word \div 2 - 1)

\* the members of S in ascending order
RECURSIVE Ascending(_)
Ascending(S) ==
    IF S = {} THEN <<>>
    ELSE LET m == CHOOSE x \in S : \A y \in S : x <= y IN
         <<m>> \o Ascending(S \ {m})

\* the rows of a key -> row map in ascending key order
RowsOf(map) ==
    LET ks == Ascending(DOMAIN map) IN [i \in 1 .. Len(ks) |-> map[ks[i]]]

\* the pages the root-to-leaf descents can visit below page (page included)
RECURSIVE Reach(_, _, _)
Reach(t, page, fuel) ==
    LET node == Node(t, page) IN
    IF get_node_type(node) = NODE_LEAF \/ fuel = 0 THEN {page}
    ELSE {page} \cup UNION {Reach(t, ChildList(node)[i], fuel - 1) :
                               i \in 1 .. Len(ChildList(node))}

TreePages == Reach(Tbl, header.root_page_num, TABLE_MAX_PAGES)

\* the depths below page at which a leaf is met; -1 for a branch that meets
\* none
RECURSIVE LeafDepths(_, _, _)
LeafDepths(t, page, fuel) ==
    LET node == Node(t, page) IN
    IF get_node_type(node) = NODE_LEAF THEN {0}
    ELSE IF fuel = 0 THEN {0 - 1}
    ELSE UNION {{IF d < 0 THEN d ELSE d + 1 :
                    d \in LeafDepths(t, ChildList(node)[i], fuel - 1)} :
                   i \in 1 .. Len(ChildList(node))}

\* the (signed) keys stored in the leaves below page
RECURSIVE SubtreeKeys(_, _, _)
SubtreeKeys(t, page, fuel) ==
    LET node == Node(t, page) IN
    IF get_node_type(node) = NODE_LEAF
    THEN {AsSigned(leaf_node_key(node, i)) : i \in 0 .. leaf_node_num_cells(node) - 1}
    ELSE IF fuel = 0 THEN {}
    ELSE UNION {SubtreeKeys(t, ChildList(node)[i], fuel - 1) :
                   i \in 1 .. Len(ChildList(node))}

\* every call so far was an Insert of a key not inserted before
InsertsOnly == ops = Cardinality(DOMAIN live)

(* ---------------- claims ------------------------------------------------ *)

\* C1: after any sequence of Insert and Delete calls on a new database a full
\* scan (TableStart, CursorAdvance until end_of_table) finishes and yields
\* exactly the live keys, each once, in ascending key order, each with the
\* row that was inserted for it.
ScanRefinesMap ==
    sess = "open" => ScanFault(Tbl) = "" /\ Scan(Tbl) = RowsOf(live)

\* C2: for every key k, Find(k) returns a cursor on a cell holding k exactly
\* when k is live; when k is not live the cursor's cell index is the insertion
\* position in the leaf the descent selects: every cell before it has a
\* smaller key and the cell at it, if any, a larger one.
FindAgreesWithMap ==
    sess = "open" =>
        \A k \in SignedKeys :
            /\ FindFault(Tbl, k) = ""
            /\ Found(Tbl, k) <=> k \in DOMAIN live
            /\ k \notin DOMAIN live =>
                   LET c == btree_table_find(Tbl, k)
                       leaf == Node(Tbl, c.page_num)
                   IN  /\ \A i \in 0 .. c.cell_num - 1 :
                              AsSigned(leaf_node_key(leaf, i)) < k
                       /\ c.cell_num < leaf_node_num_cells(leaf) =>
                              AsSigned(leaf_node_key(leaf, c.cell_num)) > k

\* C3: whatever the order in which a set of unique keys (negative ids
\* included) is inserted into a new database, the scan yields all the
\* inserted rows in ascending signed key order, and the keys by which the
\* children of every internal node are arranged ascend in that same signed
\* order.
InsertOrderIrrelevant ==
    sess = "open" /\ InsertsOnly =>
        /\ ScanFault(Tbl) = ""
        /\ Scan(Tbl) = RowsOf(live)
        /\ \A p \in TreePages :
               LET node == Node(Tbl, p) IN
               get_node_type(node) = NODE_INTERNAL =>
                   \A i \in 0 .. internal_node_num_keys(node) - 2 :
                       AsSigned(internal_node_key(node, i))
                           < AsSigned(internal_node_key(node, i + 1))

\* C4: Insert of a row whose key is live returns failure and leaves the
\* header and every page as they were; the row stored for the key stays the
\* one inserted first.
DuplicateInsertRejected ==
    sess = "open" =>
        \A k \in DOMAIN live : \A v \in Names :
            LET r == btree_insert(Tbl, Row(k, v)) IN
            /\ ~r.ok
            /\ r.t = Tbl
            /\ Found(Tbl, k)
            /\ btree_cursor_value(Tbl, btree_table_find(Tbl, k)) = live[k]

\* C5: Delete of a key that is not live returns failure and leaves the header
\* and every page as they were.
MissingDeleteRejected ==
    sess = "open" =>
        \A k \in SignedKeys \ DOMAIN live :
            LET r == btree_delete(Tbl, k) IN ~r.ok /\ r.t = Tbl

\* C6: in every state a session can reach, Close followed by Open of the same
\* file succeeds, restores num_rows, root_page_num and next_free_page, and a
\* scan after the re-open yields the rows a scan before the Close yields.
ReopenRestores ==
    sess = "open" =>
        LET t == db_open(db_close(Tbl).file) IN
        /\ t.err = ""
        /\ t.header = header
        /\ ScanFault(Tbl) = "" => ScanFault(t) = "" /\ Scan(t) = Scan(Tbl)

\* C7: the file changes only in Close: no Insert, Delete, Find or scan step
\* writes it, a session that is killed or aborted leaves it as the previous
\* Close wrote it, and Open of a file still empty starts a new database.
DurableOnlyAtClose ==
    [][/\ file' # file => sess = "open" /\ sess' = "closed"
       /\ sess' \in {"dead", "hung"} => file' = file
       /\ (sess # "open" /\ sess' = "open" /\ file = NoPages) =>
              /\ header' = [num_rows |-> 0, root_page_num |-> 1, next_free_page |-> 2]
              /\ Scan(Tbl') = <<>>
              /\ live' = NoRows]_vars

\* a session that had changed the table since the last Close was killed, or
\* aborted by a fatal error, and left the file an earlier Close wrote
InterruptedAfterChanges ==
    /\ sess = "dead"
    /\ live # saved
    /\ file # NoPages
    /\ last.op \in {"kill", "insert", "delete"}

\* C8: in every state reachable by inserts and deletes every leaf is at the
\* same depth from the root.
LeavesAtOneDepth ==
    sess = "open" =>
        \E d \in 0 .. TABLE_MAX_PAGES :
            LeafDepths(Tbl, header.root_page_num, TABLE_MAX_PAGES) = {d}

\* C9: between operations every leaf other than the root holds between
\* LEAF_NODE_MIN_CELLS and LEAF_NODE_MAX_CELLS cells and every internal node
\* other than the root between INTERNAL_NODE_MIN_KEYS and
\* INTERNAL_NODE_MAX_KEYS keys.
NodesWithinBand ==
    sess = "open" =>
        \A p \in TreePages \ {header.root_page_num} :
            LET node == Node(Tbl, p) IN
            IF get_node_type(node) = NODE_LEAF
            THEN /\ LEAF_NODE_MIN_CELLS <= leaf_node_num_cells(node)
                 /\ leaf_node_num_cells(node) <= LEAF_NODE_MAX_CELLS
            ELSE /\ INTERNAL_NODE_MIN_KEYS <= internal_node_num_keys(node)
                 /\ internal_node_num_keys(node) <= INTERNAL_NODE_MAX_KEYS

\* C10: between operations, in every internal node the key stored in cell i
\* is the largest key present in the subtree under child i.
KeysAreSubtreeMax ==
    sess = "open" =>
        \A p \in TreePages :
            LET node == Node(Tbl, p) IN
            get_node_type(node) = NODE_INTERNAL =>
                \A i \in 0 .. internal_node_num_keys(node) - 1 :
                    LET ks == SubtreeKeys(Tbl, internal_node_child(node, i),
                                          TABLE_MAX_PAGES)
                    IN  /\ ks # {}
                        /\ \A k \in ks : k <= AsSigned(internal_node_key(node, i))
                        /\ AsSigned(internal_node_key(node, i)) \in ks

\* C11: between operations every node below the root names as its parent the
\* internal node that lists it, as a cell child or as right_child; the
\* children of the page an internal root was copied into are no exception.
ParentsPointBack ==
    sess = "open" =>
        \A p \in TreePages :
            LET node == Node(Tbl, p) IN
            get_node_type(node) = NODE_INTERNAL =>
                \A i \in 1 .. Len(ChildList(node)) :
                    node_parent(Node(Tbl, ChildList(node)[i])) = p

\* the number of cells in the leaves among the pages S
RECURSIVE CellsIn(_, _)
CellsIn(t, S) ==
    IF S = {} THEN 0
    ELSE LET p == CHOOSE x \in S : TRUE
             node == Node(t, p)
         IN  (IF get_node_type(node) = NODE_LEAF THEN leaf_node_num_cells(node) ELSE 0)
                 + CellsIn(t, S \ {p})

\* the total number of cells in the leaves reachable from the root
LeafCells(t) == CellsIn(t, Reach(t, t.header.root_page_num, TABLE_MAX_PAGES))

\* C12: between operations header.num_rows is the number of cells in the
\* leaves reachable from the root, which is the number of live keys; a
\* successful Insert adds one to it, a successful Delete takes one from it
\* and a call that fails leaves it alone.
NumRowsCountsCells ==
    /\ [](sess = "open" =>
              /\ header.num_rows = LeafCells(Tbl)
              /\ header.num_rows = Cardinality(DOMAIN live))
    /\ [][(sess = "open" /\ sess' = "open" /\ last'.op \in {"insert", "delete"}) =>
              header'.num_rows =
                  IF ~last'.ok THEN header.num_rows
                  ELSE IF last'.op = "insert" THEN header.num_rows + 1
                  ELSE header.num_rows - 1]_vars

\* the (signed) keys of the cells of a node, leaf or internal, in cell order
CellKeys(node) == [i \in 1 .. node.num |-> AsSigned(node.cells[i].key)]

\* C13: between operations the cell keys of every node, leaf or internal,
\* are strictly ascending as signed integers, and no key is stored in two
\* leaf cells of the tree.
KeysStrictlyAscending ==
    sess = "open" =>
        /\ \A p \in TreePages :
               LET ks == CellKeys(Node(Tbl, p)) IN
               \A i \in 1 .. Len(ks) - 1 : ks[i] < ks[i + 1]
        /\ \A p, q \in TreePages :
               (/\ p # q
                /\ get_node_type(Node(Tbl, p)) = NODE_LEAF
                /\ get_node_type(Node(Tbl, q)) = NODE_LEAF) =>
                   SubtreeKeys(Tbl, p, 0) \cap SubtreeKeys(Tbl, q, 0) = {}

\* C14: a new database has root_page_num 1; no Insert changes
\* root_page_num, whether or not it splits the root, and a Delete changes it
\* only by collapsing the root: the old root is then an internal node left
\* with no key, and its one remaining child is the new root.
RootMovesOnlyOnCollapse ==
    /\ header.root_page_num = 1
    /\ [][(sess = "open" /\ sess' = "open") =>
              /\ last'.op = "insert" => header'.root_page_num = header.root_page_num
              /\ header'.root_page_num # header.root_page_num =>
                     LET old == Node(Tbl', header.root_page_num) IN
                     /\ last'.op = "delete" /\ last'.ok
                     /\ get_node_type(old) = NODE_INTERNAL
                     /\ internal_node_num_keys(old) = 0
                     /\ internal_node_right_child(old) = header'.root_page_num
                     /\ is_node_root(Node(Tbl', header'.root_page_num))]_vars

\* a collapse has moved the root off page 1 and an Insert has since succeeded
\* under a root that is an internal node
InsertAfterCollapse ==
    /\ sess = "open"
    /\ header.root_page_num # 1
    /\ last = [op |-> "insert", ok |-> TRUE]
    /\ get_node_type(Node(Tbl, header.root_page_num)) = NODE_INTERNAL

\* the pages allocate_page has handed out (and page 1, the first root) that
\* the tree no longer holds: dropped by a merge or by a root collapse
Dropped(t) ==
    {p \in 1 .. t.header.next_free_page - 1 :
        p \notin Reach(t, t.header.root_page_num, TABLE_MAX_PAGES)}

\* the pages the leaves of the tree name as next_leaf
ChainLinks(t) ==
    {leaf_node_next_leaf(Node(t, p)) :
        p \in {q \in Reach(t, t.header.root_page_num, TABLE_MAX_PAGES) :
                  get_node_type(Node(t, q)) = NODE_LEAF}}

\* C15: within a session next_free_page never decreases and never exceeds
\* TABLE_MAX_PAGES (each page handed out is new and below TABLE_MAX_PAGES), a
\* Delete leaves it alone, and a page that a merge or a root collapse dropped
\* from the tree stays out of it and is named by no next_leaf of the tree.
AllocatorMonotonic ==
    [][(sess = "open" /\ sess' = "open") =>
           /\ header'.next_free_page >= header.next_free_page
           /\ header'.next_free_page <= TABLE_MAX_PAGES
           /\ last'.op = "delete" => header'.next_free_page = header.next_free_page
           /\ Dropped(Tbl) \subseteq Dropped(Tbl')
           /\ Dropped(Tbl') \cap ChainLinks(Tbl') = {}]_vars

\* C16: in every state and for every row r whose id is not live, the calls
\* Insert(r), Delete(r.id), Insert(r) all return success, and the scan after
\* them yields the rows, in the order, that the scan after the first
\* Insert(r) alone yields.
InsertDeleteInsert ==
    sess = "open" =>
        \A k \in SignedKeys \ DOMAIN live : \A v \in Names :
            LET a == btree_insert(Tbl, Row(k, v))
                b == btree_delete(a.t, k)
                c == btree_insert(b.t, Row(k, v))
            IN  (a.t.err = "" /\ ~a.t.overrun) =>
                    /\ a.ok /\ b.ok /\ c.ok
                    /\ b.t.err = "" /\ c.t.err = ""
                    /\ ScanFault(c.t) = ScanFault(a.t)
                    /\ Scan(c.t) = Scan(a.t)

\* C17: whenever no key is live the root is a leaf with no cell, num_rows is
\* 0 and TableStart returns a cursor at end_of_table; an Insert then succeeds
\* and the next scan yields its row.
EmptiedTableIsFresh ==
    (sess = "open" /\ live = NoRows) =>
        LET root == Node(Tbl, header.root_page_num) IN
        /\ get_node_type(root) = NODE_LEAF
        /\ leaf_node_num_cells(root) = 0
        /\ header.num_rows = 0
        /\ ScanFault(Tbl) = ""
        /\ btree_table_start(Tbl).end_of_table
        /\ \A k \in SignedKeys : \A v \in Names :
               LET r == btree_insert(Tbl, Row(k, v)) IN
               /\ r.ok
               /\ r.t.err = ""
               /\ ScanFault(r.t) = ""
               /\ Scan(r.t) = <<Row(k, v)>>

\* C18: Open of a file that is absent or empty yields a new database: the
\* header is num_rows 0, root_page_num 1, next_free_page 2, page 1 is a leaf
\* with is_root set, parent 0, no cell and next_leaf 0, and a scan yields
\* nothing.
OpenOfEmptyFileIsFresh ==
    (sess = "open" /\ last.op = "open" /\ file = NoPages) =>
        LET root == Node(Tbl, 1) IN
        /\ header = [num_rows |-> 0, root_page_num |-> 1, next_free_page |-> 2]
        /\ get_node_type(root) = NODE_LEAF
        /\ is_node_root(root)
        /\ node_parent(root) = 0
        /\ leaf_node_num_cells(root) = 0
        /\ leaf_node_next_leaf(root) = 0
        /\ ScanFault(Tbl) = ""
        /\ Scan(Tbl) = <<>>

\* a second Open of a file that is still empty: the session before it was
\* killed before any Close
OpenedEmptyAgain ==
    /\ sess = "open"
    /\ last.op = "open"
    /\ file = NoPages
    /\ ops > 2

\* C19: pager_get_page(n) with n < TABLE_MAX_PAGES returns the buffer of page
\* n and a second call returns the same one; a resident page is not read
\* again, a page that is not resident is filled from the file when n is below
\* the page count and is zero-filled, raising the page count to n + 1,
\* otherwise; no other buffer and no byte of the file changes; what is
\* stored through the buffer is what later calls return; no buffer leaves
\* the pager during a session.  With n >= TABLE_MAX_PAGES the process aborts.
GetPageKeepsOneBuffer ==
    /\ [](sess = "open" =>
            \A n \in 0 .. TABLE_MAX_PAGES + 1 :
                LET u == pager_get_page(Tbl, n) IN
                IF n >= TABLE_MAX_PAGES THEN u.err # ""
                ELSE /\ u.err = ""
                     /\ DOMAIN u.pages = DOMAIN pages \cup {n}
                     /\ pager_get_page(u, n) = u
                     /\ n \in DOMAIN pages => u = Tbl
                     /\ (n \notin DOMAIN pages /\ n < num_pages) =>
                            /\ u.pages[n] = ReadFile(Tbl, n)
                            /\ u.num_pages = num_pages
                     /\ (n \notin DOMAIN pages /\ n >= num_pages) =>
                            /\ u.pages[n] = ZeroPage
                            /\ u.num_pages = n + 1
                     /\ \A m \in DOMAIN pages \ {n} : u.pages[m] = pages[m]
                     /\ u.file = file
                     /\ \A node \in {ZeroPage, initialize_leaf_node} :
                            LET w == SetPage(u, n, node) IN
                            /\ pager_get_page(w, n) = w
                            /\ Node(w, n) = node)
    /\ [][(sess = "open" /\ sess' = "open") =>
              /\ DOMAIN pages \subseteq DOMAIN pages'
              /\ num_pages' >= num_pages]_vars

\* a session on a re-opened file with a page it has stored to and a page,
\* below the page count and not empty in the file, that it has not touched
SomePagesResident ==
    /\ sess = "open"
    /\ \E n \in DOMAIN pages : pages[n] # ReadFile(Tbl, n)
    /\ \E n \in DOMAIN file :
           n \notin DOMAIN pages /\ n < num_pages /\ file[n] # ZeroPage

\* C20: after every Close the file holds exactly the pages 0 ..
\* next_free_page - 1: page 0 carries the header as it was at the Close,
\* every page that was resident equals its buffer, and a page that was not
\* resident is in the file as it was before.
CloseWritesEveryPage ==
    [][(sess = "open" /\ sess' = "closed") =>
           /\ DOMAIN file' = 0 .. header.next_free_page - 1
           /\ HeaderOf(file'[0]) = header
           /\ file'[0] = HeaderBytes(header, Node(Tbl, 0))
           /\ \A n \in 1 .. header.next_free_page - 1 :
                  IF n \in DOMAIN pages THEN file'[n] = pages[n]
                  ELSE n \in DOMAIN file /\ file'[n] = file[n]]_vars

\* a Close has written a tree of several pages that holds rows
ClosedWithTree ==
    /\ sess = "closed"
    /\ last.op = "close"
    /\ saved # NoRows
    /\ Cardinality(DOMAIN file) > 3

\* C21: between operations the root is never an internal node without a
\* key: a merge that leaves the internal root one child promotes that child
\* before the call returns, so TableStart does not abort with "corrupt
\* internal".
RootNeverKeyless ==
    sess = "open" =>
        LET root == Node(Tbl, header.root_page_num) IN
        /\ ~(get_node_type(root) = NODE_INTERNAL /\ internal_node_num_keys(root) = 0)
        /\ is_node_root(root)
        /\ node_parent(root) = 0
        /\ ScanFault(Tbl) # "corrupt internal"

\* a Delete has just collapsed the root: page 1, the first root, is left an
\* internal node without a key whose one child is the root now
RootPromoted ==
    /\ sess = "open"
    /\ last = [op |-> "delete", ok |-> TRUE]
    /\ header.root_page_num # 1
    /\ get_node_type(Node(Tbl, 1)) = NODE_INTERNAL
    /\ internal_node_num_keys(Node(Tbl, 1)) = 0
    /\ internal_node_right_child(Node(Tbl, 1)) = header.root_page_num

\* the largest of a non-empty set of integers
Largest(S) == CHOOSE x \in S : \A y \in S : y <= x

\* the height of the tree: the number of nodes on the longest path from the
\* root to a leaf (1 for a leaf root)
Height(t) == 1 + Largest(LeafDepths(t, t.header.root_page_num, TABLE_MAX_PAGES) \cup {0})

\* C22: a call changes the height of the tree by at most one; the height
\* grows, by one, exactly in an Insert that splits the root (the root page
\* then has one key over the page the old root was copied to and the new
\* right half); it falls, by one, only in a Delete that collapses an internal
\* root left with one child; a call that fails leaves it alone, and a tree
\* whose root is a leaf does not shrink.
HeightStepsByOne ==
    [][(sess = "open" /\ sess' = "open") =>
           LET h == Height(Tbl)
               g == Height(Tbl')
               old == Node(Tbl', header.root_page_num)
               root == Node(Tbl', header'.root_page_num)
               split == /\ last' = [op |-> "insert", ok |-> TRUE]
                        /\ header'.root_page_num = header.root_page_num
                        /\ header'.next_free_page > header.next_free_page
                        /\ get_node_type(root) = NODE_INTERNAL
                        /\ internal_node_num_keys(root) = 1
                        /\ internal_node_child(root, 0) = header'.next_free_page - 1
                               \/ internal_node_right_child(root)
                                      = header'.next_free_page - 1
           IN  /\ g \in {h - 1, h, h + 1}
               /\ g = h + 1 <=> split
               /\ g = h - 1 =>
                      /\ last' = [op |-> "delete", ok |-> TRUE]
                      /\ get_node_type(Node(Tbl, header.root_page_num)) = NODE_INTERNAL
                      /\ get_node_type(old) = NODE_INTERNAL
                      /\ internal_node_num_keys(old) = 0
                      /\ internal_node_right_child(old) = header'.root_page_num
               /\ ~last'.ok => g = h]_vars

\* an Insert has split a leaf root that an earlier collapse had left on
\* another page than 1: the height went 1, 2, 1 and is 2 again
SplitAfterCollapse ==
    /\ sess = "open"
    /\ last = [op |-> "insert", ok |-> TRUE]
    /\ header.root_page_num # 1
    /\ Height(Tbl) = 2
    /\ internal_node_num_keys(Node(Tbl, header.root_page_num)) = 1
    /\ header.next_free_page - 1 \in
           {c \in 1 .. TABLE_MAX_PAGES :
               \E i \in 1 .. 2 : ChildList(Node(Tbl, header.root_page_num))[i] = c}

\* C23: starting from an empty database, the first LEAF_NODE_MAX_CELLS
\* inserts of distinct keys, in any order, allocate no page and leave the root
\* a leaf; the next insert of a new key splits it: page 1 is still the root and
\* is an internal node with exactly one key and two leaf children,
\* next_free_page has grown by exactly 2, and both leaves hold at least
\* LEAF_NODE_MIN_CELLS cells.
LeafFillBoundary ==
    (sess = "open" /\ InsertsOnly) =>
        LET root == Node(Tbl, header.root_page_num)
            lo == Node(Tbl, internal_node_child(root, 0))
            hi == Node(Tbl, internal_node_right_child(root))
        IN  /\ ops <= LEAF_NODE_MAX_CELLS =>
                   /\ header.root_page_num = 1
                   /\ header.next_free_page = 2
                   /\ get_node_type(root) = NODE_LEAF
                   /\ leaf_node_num_cells(root) = ops
            /\ ops = LEAF_NODE_MAX_CELLS + 1 =>
                   /\ header.root_page_num = 1
                   /\ header.next_free_page = 2 + 2
                   /\ get_node_type(root) = NODE_INTERNAL
                   /\ internal_node_num_keys(root) = 1
                   /\ internal_node_child(root, 0) # internal_node_right_child(root)
                   /\ get_node_type(lo) = NODE_LEAF
                   /\ get_node_type(hi) = NODE_LEAF
                   /\ leaf_node_num_cells(lo) >= LEAF_NODE_MIN_CELLS
                   /\ leaf_node_num_cells(hi) >= LEAF_NODE_MIN_CELLS
                   /\ leaf_node_num_cells(lo) + leaf_node_num_cells(hi) = ops

\* the insert after the leaf root was filled has just split it
FullRootLeafSplit ==
    /\ sess = "open"
    /\ InsertsOnly
    /\ ops = LEAF_NODE_MAX_CELLS + 1
    /\ last = [op |-> "insert", ok |-> TRUE]
    /\ get_node_type(Node(Tbl, header.root_page_num)) = NODE_INTERNAL

\* the call Insert(k, v) on the table before the step returned the table after
\* it, and the leaf it targeted held LEAF_NODE_MAX_CELLS cells
SplitsLeaf(k, v) ==
    /\ sess = "open"
    /\ sess' = "open"
    /\ last' = [op |-> "insert", ok |-> TRUE]
    /\ header'.next_free_page > header.next_free_page
    /\ k \in DOMAIN live'
    /\ v \in NamesFor(k)
    /\ FindLeaf(Tbl, k) > 0
    /\ leaf_node_num_cells(Node(Tbl, FindLeaf(Tbl, k))) = LEAF_NODE_MAX_CELLS
    /\ LET r == btree_insert(Tbl, Row(k, v)) IN
       /\ r.ok
       /\ r.t.err = ""
       /\ pages' = r.t.pages
       /\ header' = r.t.header

\* C24: when Insert targets a leaf holding LEAF_NODE_MAX_CELLS cells,
\* afterwards the left leaf (the old page, or its copy when the old leaf was
\* the root) holds the floor(total/2) smallest of the total =
\* LEAF_NODE_MAX_CELLS + 1 combined keys and the new leaf holds the rest; the
\* new leaf's next_leaf is the old leaf's previous next_leaf, the left leaf's
\* next_leaf is the new leaf, and another leaf that pointed at the old leaf
\* still points at the left leaf.
LeafSplitHalves ==
    [][\A k \in Keys : \A v \in Names :
          SplitsLeaf(k, v) =>
              LET old_page == FindLeaf(Tbl, k)
                  old == Node(Tbl, old_page)
                  new_page == header.next_free_page
                  left_page == IF is_node_root(old) THEN new_page + 1 ELSE old_page
                  left == Node(Tbl', left_page)
                  new == Node(Tbl', new_page)
                  total == LEAF_NODE_MAX_CELLS + 1
                  combined == Ascending({CellKeys(old)[i] : i \in 1 .. old.num} \cup {k})
              IN  /\ Len(combined) = total
                  /\ get_node_type(left) = NODE_LEAF
                  /\ get_node_type(new) = NODE_LEAF
                  /\ CellKeys(left) = SubSeq(combined, 1, total \div 2)
                  /\ CellKeys(new) = SubSeq(combined, total \div 2 + 1, total)
                  /\ leaf_node_next_leaf(new) = leaf_node_next_leaf(old)
                  /\ leaf_node_next_leaf(left) = new_page
                  /\ \A p \in TreePages :
                         (/\ p # old_page
                          /\ get_node_type(Node(Tbl, p)) = NODE_LEAF
                          /\ leaf_node_next_leaf(Node(Tbl, p)) = old_page)
                         => leaf_node_next_leaf(Node(Tbl', p)) = left_page]_vars

\* the call Insert(k, v) on the table before the step returned the table after
\* it, and the leaf it targeted held fewer than LEAF_NODE_MAX_CELLS cells
FitsLeaf(k, v) ==
    /\ sess = "open"
    /\ sess' = "open"
    /\ last' = [op |-> "insert", ok |-> TRUE]
    /\ DOMAIN live' = DOMAIN live \cup {k}
    /\ v \in NamesFor(k)
    /\ FindLeaf(Tbl, k) > 0
    /\ leaf_node_num_cells(Node(Tbl, FindLeaf(Tbl, k))) < LEAF_NODE_MAX_CELLS
    /\ LET r == btree_insert(Tbl, Row(k, v)) IN
       /\ r.ok
       /\ r.t.err = ""
       /\ pages' = r.t.pages
       /\ header' = r.t.header

\* C25: an Insert of a new key into a leaf with fewer than
\* LEAF_NODE_MAX_CELLS cells changes only that leaf page (the cells at and
\* after the insertion position move one slot right, the new cell is written
\* there, num_cells grows by one) and header.num_rows; every other page,
\* root_page_num and next_free_page are unchanged.
InsertWithoutSplitFrame ==
    [][\A k \in Keys : \A v \in Names :
          FitsLeaf(k, v) =>
              LET c == btree_table_find(Tbl, k)
                  before == Node(Tbl, c.page_num)
                  after == Node(Tbl', c.page_num)
              IN  /\ header'.root_page_num = header.root_page_num
                  /\ header'.next_free_page = header.next_free_page
                  /\ header'.num_rows = (header.num_rows + 1) % Word
                  /\ \A p \in 1 .. TABLE_MAX_PAGES :
                         p # c.page_num => Node(Tbl', p) = Node(Tbl, p)
                  /\ after = [before EXCEPT
                                 !.num = before.num + 1,
                                 !.cells = SubSeq(before.cells, 1, c.cell_num)
                                           \o <<[key |-> AsUnsigned(k), value |-> Row(k, v)]>>
                                           \o SubSeq(before.cells, c.cell_num + 1, before.num)]]_vars

\* the insert after the first split went into a leaf that had room
InsertedBelowInternalRoot ==
    /\ sess = "open"
    /\ InsertsOnly
    /\ ops = LEAF_NODE_MAX_CELLS + 2
    /\ last = [op |-> "insert", ok |-> TRUE]
    /\ get_node_type(Node(Tbl, header.root_page_num)) = NODE_INTERNAL
    /\ header.next_free_page = 4
    /\ header.num_rows = LEAF_NODE_MAX_CELLS + 2

\* the call Delete(k) on the table before the step found the key, succeeded
\* and returned the table after it (in either build)
DeletesKey(k) ==
    /\ sess = "open"
    /\ sess' = "open"
    /\ last' = [op |-> "delete", ok |-> TRUE]
    /\ k \notin DOMAIN live'
    /\ FindLeaf(Tbl, k) > 0
    /\ Found(Tbl, k)
    /\ \E r \in {btree_delete(Tbl, k), btree_delete_commit11(Tbl, k)} :
           /\ r.ok
           /\ r.t.err = ""
           /\ pages' = r.t.pages
           /\ header' = r.t.header

Children(node) == {ChildList(node)[i] : i \in DOMAIN ChildList(node)}

\* C26: a successful Delete that leaves a non-root leaf with at least
\* LEAF_NODE_MIN_CELLS cells, or that targets the root leaf, changes only that
\* leaf page and header.num_rows; a successful Delete that leaves a non-root
\* leaf with fewer cells performs exactly one borrow (a sibling leaf gives one
\* cell) or one merge (one leaf of the pair holds the cells of both and the
\* parent no longer lists the other) before it returns.
DeleteBoundary ==
    [][\A k \in Keys :
          DeletesKey(k) =>
              LET c == btree_table_find(Tbl, k)
                  before == Node(Tbl, c.page_num)
                  shrunk == [before EXCEPT !.cells = RemoveAt(@, c.cell_num),
                                           !.num = before.num - 1]
                  P == node_parent(before)
                  kin == Children(Node(Tbl, P)) \ {0}
                  was(p) == IF p = c.page_num THEN shrunk ELSE Node(Tbl, p)
                  borrow == \E s \in kin \ {c.page_num} :
                                /\ get_node_type(Node(Tbl, s)) = NODE_LEAF
                                /\ Node(Tbl', s).num = Node(Tbl, s).num - 1
                                /\ Node(Tbl', c.page_num).num = shrunk.num + 1
                  merge == \E a, b \in kin :
                               /\ a # b
                               /\ c.page_num \in {a, b}
                               /\ get_node_type(Node(Tbl, a)) = NODE_LEAF
                               /\ get_node_type(Node(Tbl, b)) = NODE_LEAF
                               /\ Node(Tbl', a).cells = was(a).cells \o was(b).cells
                               /\ b \notin Children(Node(Tbl', P))
              IN  IF is_node_root(before) \/ shrunk.num >= LEAF_NODE_MIN_CELLS
                  THEN /\ header' = [header EXCEPT !.num_rows = (@ - 1) % Word]
                       /\ Node(Tbl', c.page_num) = shrunk
                       /\ \A p \in 1 .. TABLE_MAX_PAGES :
                              p # c.page_num => Node(Tbl', p) = Node(Tbl, p)
                  ELSE /\ borrow \/ merge
                       /\ ~(borrow /\ merge)]_vars

\* the table in the middle of the call Delete(k): the cell is removed and
\* num_rows is decremented, the leaf is not yet rebalanced
Removed(k) ==
    LET c == btree_table_find(Tbl, k)
        leaf == Node(Tbl, c.page_num)
    IN  [SetPage(Tbl, c.page_num,
             [leaf EXCEPT !.cells = RemoveAt(@, c.cell_num), !.num = leaf.num - 1])
            EXCEPT !.header.num_rows = (@ - 1) % Word]

\* the call Delete(k) left a non-root leaf underfull and the table after the
\* step is the one it returned
Underflows(k) ==
    /\ DeletesKey(k)
    /\ pages' = btree_delete(Tbl, k).t.pages
    /\ header' = btree_delete(Tbl, k).t.header
    /\ ~is_node_root(Node(Tbl, FindLeaf(Tbl, k)))
    /\ leaf_node_num_cells(Node(Removed(k), FindLeaf(Tbl, k))) < LEAF_NODE_MIN_CELLS
    /\ find_leaf_siblings(Removed(k), FindLeaf(Tbl, k)).found

\* 0 when the leaf borrowed from neither sibling, else the lender's page
Lender(k) ==
    LET leaf_page == FindLeaf(Tbl, k)
        sib == find_leaf_siblings(Removed(k), leaf_page)
    IN  IF try_borrow_from_left(Removed(k), leaf_page, sib.left, sib.parent).ok
        THEN sib.left
        ELSE IF try_borrow_from_right(Removed(k), leaf_page, sib.right, sib.parent).ok
        THEN sib.right
        ELSE 0

MergeEffect ==
    [][\A k \in Keys :
          (Underflows(k) /\ Lender(k) = 0) =>
              LET mid == Removed(k)
                  leaf_page == FindLeaf(Tbl, k)
                  sib == find_leaf_siblings(mid, leaf_page)
                  survivor == IF sib.left # 0 THEN sib.left ELSE leaf_page
                  removed == IF sib.left # 0 THEN leaf_page ELSE sib.right
              IN  /\ sib.left # 0 =>
                         leaf_node_num_cells(Node(mid, sib.left)) <= LEAF_NODE_MIN_CELLS
                  /\ sib.right # 0 =>
                         leaf_node_num_cells(Node(mid, sib.right)) <= LEAF_NODE_MIN_CELLS
                  /\ removed # 0 =>
                         /\ Node(Tbl', survivor).cells
                                = Node(mid, survivor).cells \o Node(mid, removed).cells
                         /\ leaf_node_next_leaf(Node(Tbl', survivor))
                                = leaf_node_next_leaf(Node(mid, removed))
                         /\ removed \notin Children(Node(Tbl', sib.parent))
                         /\ removed \notin Reach(Tbl', header'.root_page_num, TABLE_MAX_PAGES)
                         /\ removed \notin ChainLinks(Tbl')]_vars

\* what the lookup of the source returns for a leaf or an internal node
Siblings(t, page) ==
    IF get_node_type(Node(t, page)) = NODE_LEAF
    THEN find_leaf_siblings(t, page)
    ELSE find_internal_siblings(t, page)

\* C29: for a node of the tree at child position i of an internal node (the
\* last position being right_child) the lookup finds the node in that parent's
\* child list; the left sibling is the child at position i - 1, or none at
\* the first position, and the right sibling is the child at position i + 1,
\* or none for right_child.
SiblingLookup ==
    sess = "open" =>
        \A P \in TreePages :
            get_node_type(Node(Tbl, P)) = NODE_INTERNAL =>
                LET list == ChildList(Node(Tbl, P)) IN
                \A i \in 1 .. Len(list) :
                    LET sib == Siblings(Tbl, list[i]) IN
                    /\ sib.found
                    /\ sib.parent = P
                    /\ sib.left = IF i = 1 THEN 0 ELSE list[i - 1]
                    /\ sib.right = IF i = Len(list) THEN 0 ELSE list[i + 1]

\* C30: when a child is added to an internal node that already has
\* INTERNAL_NODE_MAX_CHILDREN children, the old internal keeps the first
\* floor(n/2) of the n = INTERNAL_NODE_MAX_CHILDREN + 1 children and a newly
\* allocated internal gets the other ceil(n/2); both end with at least
\* INTERNAL_NODE_MIN_KEYS keys, every child's parent field names the node that
\* now lists it, and the new internal is listed by the grandparent, or by the
\* new root when the split node was the root.
InternalSplitHalves ==
    [][\A k \in Keys : \A v \in Names :
          (/\ SplitsLeaf(k, v)
           /\ ~is_node_root(Node(Tbl, FindLeaf(Tbl, k)))
           /\ internal_node_num_keys(Node(Tbl, node_parent(Node(Tbl, FindLeaf(Tbl, k)))))
                  = INTERNAL_NODE_MAX_KEYS) =>
              LET P == node_parent(Node(Tbl, FindLeaf(Tbl, k)))
                  before == Node(Tbl, P)
                  new_leaf == header.next_free_page
                  new_internal == header.next_free_page + 1
                  n == INTERNAL_NODE_MAX_CHILDREN + 1
                  old_internal == IF is_node_root(before) THEN new_internal + 1 ELSE P
                  above == IF is_node_root(before) THEN P ELSE node_parent(before)
                  old == Node(Tbl', old_internal)
                  new == Node(Tbl', new_internal)
              IN  /\ get_node_type(old) = NODE_INTERNAL
                  /\ get_node_type(new) = NODE_INTERNAL
                  /\ Len(ChildList(old)) = n \div 2
                  /\ Len(ChildList(new)) = n - n \div 2
                  /\ Children(old) \cup Children(new) = Children(before) \cup {new_leaf}
                  /\ internal_node_num_keys(old) >= INTERNAL_NODE_MIN_KEYS
                  /\ internal_node_num_keys(new) >= INTERNAL_NODE_MIN_KEYS
                  /\ new_internal \in Children(Node(Tbl', above))
                  /\ is_node_root(before) =>
                         /\ header'.root_page_num = P
                         /\ ChildList(Node(Tbl', P)) \in {<<old_internal, new_internal>>,
                                                         <<new_internal, old_internal>>}
                  /\ \A c \in Children(old) : node_parent(Node(Tbl', c)) = old_internal
                  /\ \A c \in Children(new) : node_parent(Node(Tbl', c)) = new_internal]_vars

(* ---------------- a tree of three levels -------------------------------- *)

\* An internal node that is not the root exists only once the root has split,
\* and rebalance_internal lends a child only when such a node has a sibling
\* with more than INTERNAL_NODE_MIN_KEYS keys: the shortest session that gets
\* there (13 1 27 6 20 18 7 12 25 inserted, 13 and 7 deleted, with two cells
\* to a leaf and two keys to an internal node) has allocated 11 pages, more
\* than TABLE_MAX_PAGES leaves room for here.  The tree drawn below is the part
\* of such a state that the calls walk: a root over two internal nodes, one
\* with INTERNAL_NODE_MIN_KEYS keys and one with a key more than that, over
\* leaves of LEAF_NODE_MIN_CELLS cells each, keys ascending and not below
\* zero, every field as internal_node_rebuild leaves it.
DeepPoor == 2
DeepRich == 3

DeepKeys ==
    {c \in [1 .. (2 * INTERNAL_NODE_MIN_KEYS + 3) * LEAF_NODE_MIN_CELLS -> 0 .. MaxKey] :
        \A i, j \in DOMAIN c : i < j => c[i] < c[j]}

\* poor_first: the node with fewer children is the root's left-hand child
DeepTree(c, poor_first) ==
    LET n_poor == INTERNAL_NODE_MIN_KEYS + 1
        n_rich == INTERNAL_NODE_MIN_KEYS + 2
        poor == [i \in 1 .. n_poor |-> DeepRich + i]
        rich == [i \in 1 .. n_rich |-> DeepRich + n_poor + i]
        chain == IF poor_first THEN poor \o rich ELSE rich \o poor
        w == LEAF_NODE_MIN_CELLS
        leaf(j) == [initialize_leaf_node EXCEPT
                       !.num = w,
                       !.cells = [i \in 1 .. w |->
                                     [key |-> AsUnsigned(c[(j - 1) * w + i]),
                                      value |-> Row(c[(j - 1) * w + i], 1)]],
                       !.link = IF j = Len(chain) THEN 0 ELSE chain[j + 1]]
        t0 == db_open(NoPages)
        t1 == [t0 EXCEPT
                 !.header = [num_rows |-> Len(chain) * w, root_page_num |-> 1,
                             next_free_page |-> DeepRich + Len(chain) + 1],
                 !.pages = [p \in {chain[j] : j \in DOMAIN chain} |->
                               leaf(CHOOSE j \in DOMAIN chain : chain[j] = p)]
                           @@ (DeepPoor :> initialize_internal_node)
                           @@ (DeepRich :> initialize_internal_node)
                           @@ (1 :> [initialize_internal_node EXCEPT !.is_root = TRUE])
                           @@ @,
                 !.num_pages = DeepRich + Len(chain) + 1]
        t2 == internal_node_rebuild(t1, DeepPoor, poor)
        t3 == internal_node_rebuild(t2, DeepRich, rich)
    IN  internal_node_rebuild(t3, 1, IF poor_first THEN <<DeepPoor, DeepRich>>
                                     ELSE <<DeepRich, DeepPoor>>)

InitDeep ==
    /\ file = NoPages
    /\ sess = "open"
    /\ \E c \in DeepKeys : \E poor_first \in BOOLEAN :
           LET t == DeepTree(c, poor_first) IN
           /\ header = t.header
           /\ pages = t.pages
           /\ num_pages = t.num_pages
           /\ live = [k \in {c[i] : i \in DOMAIN c} |-> Row(k, 1)]
    /\ saved = NoRows
    /\ last = [op |-> "insert", ok |-> TRUE]
    /\ ops = MaxOps - 3

SpecDeep == InitDeep /\ [][Next]_vars

\* the internal node that lends a child when the leaf of k merges and leaves
\* its parent underfull, 0 when there is none; side is "left" or "right"
InternalLender(k, side) ==
    LET P == node_parent(Node(Tbl, FindLeaf(Tbl, k)))
        sib == find_internal_siblings(Tbl, P)
        bl == try_borrow_from_left_internal(Tbl, P, sib.left, sib.parent).ok
        br == try_borrow_from_right_internal(Tbl, P, sib.right, sib.parent).ok
    IN  IF ~sib.found
             \/ internal_node_num_keys(Node(Tbl, P)) - 1 >= INTERNAL_NODE_MIN_KEYS
        THEN 0
        ELSE IF bl THEN (IF side = "left" THEN sib.left ELSE 0)
        ELSE IF br THEN (IF side = "right" THEN sib.right ELSE 0)
        ELSE 0

\* node lists kids: every child names node as its parent and is not marked
\* root, and every stored key is the largest key below its child
Rebuilt(t, node, kids) ==
    /\ ChildList(Node(t, node)) = kids
    /\ \A i \in DOMAIN kids :
           /\ node_parent(Node(t, kids[i])) = node
           /\ ~is_node_root(Node(t, kids[i]))
           /\ i < Len(kids) =>
                  internal_node_key(Node(t, node), i - 1) = get_node_max_key(t, kids[i])

SignedWords == {AsSigned(u) : u \in 0 .. Word - 1}

\* the largest keys of the children of an internal root, the right child
\* last: any ascending keys, the smallest and the largest value included
FindKeys ==
    UNION {{c \in [1 .. n + 1 -> SignedWords] :
               \A i, j \in DOMAIN c : i < j => c[i] < c[j]} :
           n \in 1 .. INTERNAL_NODE_MAX_KEYS}

\* a root over leaves of one cell each, leaf i holding c[i]
FindTree(c) ==
    LET kids == [i \in DOMAIN c |-> 1 + i]
        leaf(i) == [initialize_leaf_node EXCEPT
                       !.num = 1,
                       !.cells = <<[key |-> AsUnsigned(c[i]), value |-> Row(c[i], 1)]>>,
                       !.link = IF i = Len(c) THEN 0 ELSE kids[i + 1]]
        t0 == db_open(NoPages)
        t1 == [t0 EXCEPT
                 !.header = [num_rows |-> Len(c), root_page_num |-> 1,
                             next_free_page |-> Len(c) + 2],
                 !.pages = [p \in {kids[i] : i \in DOMAIN c} |-> leaf(p - 1)]
                           @@ (1 :> [initialize_internal_node EXCEPT !.is_root = TRUE])
                           @@ @,
                 !.num_pages = Len(c) + 2]
    IN  internal_node_rebuild(t1, 1, kids)

InitFind ==
    /\ file = NoPages
    /\ sess = "open"
    /\ \E c \in FindKeys :
           LET t == FindTree(c) IN
           /\ header = t.header
           /\ pages = t.pages
           /\ num_pages = t.num_pages
           /\ live = [k \in {c[i] : i \in DOMAIN c} |-> Row(k, 1)]
    /\ saved = NoRows
    /\ last = [op |-> "insert", ok |-> TRUE]
    /\ ops = MaxOps - 1

NextFind == \E k \in Keys : Find(k)

SpecFind == InitFind /\ [][NextFind]_vars

\* C32: for every internal node whose keys ascend as signed numbers and every
\* signed target, internal_node_find_child returns the smallest index i below
\* num_keys with key[i] >= target, and num_keys when there is none (Find then
\* descends into right_child).
FindChildIsFirstNotBelow ==
    sess = "open" =>
        \A p \in DOMAIN pages :
            LET node == pages[p]
                n == internal_node_num_keys(node)
                key(i) == AsSigned(internal_node_key(node, i))
            IN  (/\ get_node_type(node) = NODE_INTERNAL
                 /\ ~Wild(node)
                 /\ \A i, j \in 0 .. n - 1 : i < j => key(i) < key(j)) =>
                    \A target \in SignedWords :
                        LET at_least == {i \in 0 .. n - 1 : key(i) >= target} IN
                        internal_node_find_child(node, target)
                            = IF at_least = {} THEN n
                              ELSE CHOOSE i \in at_least : \A j \in at_least : i <= j

\* a Find has succeeded under a root all of whose keys are below every key a
\* call can ask for: the search returned num_keys and the descent took
\* right_child
FoundInRightChild ==
    /\ sess = "open"
    /\ last = [op |-> "find", ok |-> TRUE]
    /\ LET root == Node(Tbl, header.root_page_num) IN
       /\ get_node_type(root) = NODE_INTERNAL
       /\ internal_node_num_keys(root) = INTERNAL_NODE_MAX_KEYS
       /\ \A i \in 0 .. internal_node_num_keys(root) - 1 :
              AsSigned(internal_node_key(root, i)) < 0 - NegKeys

(* ---------------- the cursor of a scan ---------------------------------- *)

\* the cursors of a scan: the one TableStart returns and those the caller's
\* calls of CursorAdvance make of it, up to end_of_table
RECURSIVE Cursors(_, _, _)
Cursors(t, c, steps) ==
    IF c.end_of_table \/ steps = 0 THEN {c}
    ELSE {c} \cup Cursors(t, btree_cursor_advance(t, c), steps - 1)

\* C33: with no Insert or Delete in between, a cursor obtained from TableStart
\* and advanced any number of times designates, whenever end_of_table is
\* false, an existing cell: cell_num is below the number of cells of the leaf
\* at page_num.  CursorAdvance moves to cell 0 of next_leaf exactly when the
\* current leaf is exhausted and next_leaf is not 0, and sets end_of_table
\* when the leaf is exhausted and next_leaf is 0.
CursorDesignatesCell ==
    (sess = "open" /\ start_from(Tbl, header.root_page_num, TABLE_MAX_PAGES) > 0) =>
        \A c \in Cursors(Tbl, btree_table_start(Tbl), ScanSteps) :
            ~c.end_of_table =>
                LET leaf == Node(Tbl, c.page_num)
                    next == leaf_node_next_leaf(leaf)
                    exhausted == c.cell_num + 1 >= leaf_node_num_cells(leaf)
                    d == btree_cursor_advance(Tbl, c)
                IN  /\ get_node_type(leaf) = NODE_LEAF
                    /\ c.cell_num < leaf_node_num_cells(leaf)
                    /\ (d.page_num = next /\ d.cell_num = 0) <=> (exhausted /\ next # 0)
                    /\ (exhausted /\ next = 0) => d.end_of_table
                    /\ ~exhausted => d = [c EXCEPT !.cell_num = @ + 1]

\* C34: for every internal node of the tree and every cell i, every key in
\* the subtree of child i is at most key i and every key in the subtree of the
\* next child (child i + 1, or right_child after the last cell) is greater
\* than key i, compared as signed numbers; a delete that removes the largest
\* key of a leaf without rebalancing leaves this so.
SeparatorsHold ==
    sess = "open" =>
        \A p \in TreePages :
            LET node == Node(Tbl, p)
                kids == ChildList(node)
            IN  get_node_type(node) = NODE_INTERNAL =>
                    \A i \in 1 .. internal_node_num_keys(node) :
                        LET key == AsSigned(internal_node_key(node, i - 1)) IN
                        /\ \A k \in SubtreeKeys(Tbl, kids[i], TABLE_MAX_PAGES) : k <= key
                        /\ \A k \in SubtreeKeys(Tbl, kids[i + 1], TABLE_MAX_PAGES) : k > key

\* C35: in every state a session can reach both root_page_num and
\* next_free_page are at least 1 and below TABLE_MAX_PAGES, so that the header
\* Close writes passes the check Open makes of it, also once the allocator has
\* handed out page TABLE_MAX_PAGES - 1.
HeaderAccepted ==
    sess = "open" =>
        /\ 1 <= header.root_page_num /\ header.root_page_num < TABLE_MAX_PAGES
        /\ 1 <= header.next_free_page /\ header.next_free_page < TABLE_MAX_PAGES
        /\ db_open(db_close(Tbl).file).err = ""

(* ---------------- the sizes the source is compiled with ----------------- *)

PAGE_SIZE == 4096
COMPILED_TABLE_MAX_PAGES == 256
INTERNAL_NODE_HEADER_SIZE == 14
INTERNAL_NODE_CELL_SIZE == 8

COMPILED_INTERNAL_NODE_MAX_CHILDREN ==
    (PAGE_SIZE - INTERNAL_NODE_HEADER_SIZE) \div INTERNAL_NODE_CELL_SIZE + 1

\* every child an internal node lists is a page allocate_page handed out
\* after page 1, and the root page, allocated or not, is none of them
ChildrenWereAllocated(t) ==
    /\ t.header.next_free_page <= TABLE_MAX_PAGES
    /\ \A p \in DOMAIN t.pages \ {0} :
           get_node_type(t.pages[p]) = NODE_INTERNAL =>
               Len(ChildList(t.pages[p])) <= t.header.next_free_page - 2

OneRootFlag ==
    sess = "open" =>
        /\ header.root_page_num \in TreePages
        /\ \A p \in TreePages :
               IF p = header.root_page_num
               THEN is_node_root(Node(Tbl, p)) /\ node_parent(Node(Tbl, p)) = 0
               ELSE ~is_node_root(Node(Tbl, p)) /\ node_parent(Node(Tbl, p)) # 0

\* the root is a leaf that a collapse promoted: the page the database began
\* with is no longer the root
PromotedLeafIsRoot ==
    /\ sess = "open"
    /\ header.root_page_num # 1
    /\ get_node_type(Node(Tbl, header.root_page_num)) = NODE_LEAF
    /\ is_node_root(Node(Tbl, 1))

\* ---------------------------------------------------------------------
\* C38: the capacity guards
\* ---------------------------------------------------------------------

\* the aborts of internal_node_rebuild and internal_node_insert_child
CapacityGuards ==
    {"internal rebuild needs >=2 children", "internal rebuild too many children",
     "corrupt internal children count", "parent not internal",
     "non-root internal without parent?"}

\* C38: while the database is open, no insert and no delete of any key ends
\* in one of the capacity aborts (so every internal_node_rebuild that a
\* merge, a borrow or a removal makes is given between 2 and
\* INTERNAL_NODE_MAX_CHILDREN children), and no allocated leaf, merged or
\* not, holds more than LEAF_NODE_MAX_CELLS cells.
CapacityGuardsNeverFire ==
    sess = "open" =>
        /\ \A k \in Keys :
              /\ btree_insert(Tbl, Row(k, 1)).t.err \notin CapacityGuards
              /\ btree_delete(Tbl, k).t.err \notin CapacityGuards
        /\ \A p \in 1 .. (header.next_free_page - 1) :
              get_node_type(Node(Tbl, p)) = NODE_LEAF =>
                  leaf_node_num_cells(Node(Tbl, p)) <= LEAF_NODE_MAX_CELLS

\* a delete has merged the two internal nodes under the root of a tree of
\* three levels, and the root has shrunk onto the merged node
MergedInternalsWithinCapacity ==
    /\ sess = "open"
    /\ ops = MaxOps - 1
    /\ last = [op |-> "delete", ok |-> TRUE]
    /\ Height(Tbl) = 2
    /\ header.next_free_page >= INTERNAL_NODE_MAX_CHILDREN + 5

\* ---------------------------------------------------------------------
\* C39: the child graph is a tree and the leaf chain ends
\* ---------------------------------------------------------------------

\* the pages met by following next_leaf from page until it is 0, as
\* btree_cursor_advance does, for at most fuel leaves
RECURSIVE LeafChain(_, _, _)
LeafChain(t, page, fuel) ==
    IF page = 0 \/ fuel = 0 THEN <<>>
    ELSE <<page>> \o LeafChain(t, leaf_node_next_leaf(Node(t, page)), fuel - 1)

\* the places (internal node of the tree, position) where page is listed as
\* a child
Listings(t, page) ==
    {x \in Reach(t, t.header.root_page_num, TABLE_MAX_PAGES)
              \X (1 .. INTERNAL_NODE_MAX_CHILDREN) :
        /\ get_node_type(Node(t, x[1])) = NODE_INTERNAL
        /\ x[2] <= Len(ChildList(Node(t, x[1])))
        /\ ChildList(Node(t, x[1]))[x[2]] = page}

\* C39: while the database is open the pages reachable from the root form a
\* tree (the root is nobody's child and every other page is listed as a child
\* exactly once, so no page is reached by two paths and there is no cycle),
\* and the next_leaf chain that starts at the leftmost leaf visits every leaf
\* of the tree exactly once and nothing else before it reaches 0.
TreeAndChainAreFinite ==
    sess = "open" =>
        LET leaves == {p \in TreePages : get_node_type(Node(Tbl, p)) = NODE_LEAF}
            first == start_from(Tbl, header.root_page_num, TABLE_MAX_PAGES)
            chain == LeafChain(Tbl, first, TABLE_MAX_PAGES + 1)
        IN  /\ Listings(Tbl, header.root_page_num) = {}
            /\ \A p \in TreePages \ {header.root_page_num} :
                  Cardinality(Listings(Tbl, p)) = 1
            /\ first \in leaves
            /\ Len(chain) = Cardinality(leaves)
            /\ {chain[i] : i \in 1 .. Len(chain)} = leaves

\* ---------------------------------------------------------------------
\* C40: the count given to sort_children_by_maxkey
\* ---------------------------------------------------------------------

\* C40: while the database is open, no insert of any key calls
\* sort_children_by_maxkey with more than INTERNAL_NODE_MAX_CHILDREN children,
\* the capacity of its keys[] array: no call stores past the array, the call
\* that internal_node_insert_child makes for a full node included.
SortStaysInsideKeys ==
    sess = "open" =>
        \A k \in Keys : ~btree_insert(Tbl, Row(k, 1)).t.overrun

====
